---- MODULE Spec2Model ----
(***************************************************************************)
(* Snow accumulation ledger of the winter scene (SnowfallLayer, mid band): *)
(* the shared mass budget, the roof / crown / ground height fields, the   *)
(* flake pool, wind erosion and ground drift; and the pointer wind field   *)
(* (WindTrail) the scene reads its wind from.                              *)
(*                                                                         *)
(* Depths and masses are fixed-point integers: one depth unit of the       *)
(* source is Scale model units.  A product with a fractional factor is     *)
(* computed as the source computes it and truncated towards minus          *)
(* infinity (\div).  Positions are whole pixels.                           *)
(***************************************************************************)
EXTENDS Integers, Sequences, FiniteSets, TLC

VARIABLES
    budget,        \* snowContext.budget
    groundBins,    \* snowContext.groundBins (shared with SnowfallLayer.groundBins)
    groundDepth,   \* snowContext.groundDepth
    roofBins,      \* house.snowBins of the house of the scene
    roofDepth,     \* house.snowDepth
    crownBins,     \* tree.snowBins of the tree of the scene: one bin row per crown layer
    treeDepth,     \* tree.snowDepth
    flakes,        \* SnowfallLayer.flakes of the mid band
    windMag,       \* mouseWind.getCurrentSpeed() as read by the last update
    gustBoost,     \* SnowfallLayer.gustBoost, in percent
    groundWind,    \* SnowfallLayer.groundWind.x
    groundLoft,    \* SnowfallLayer.groundLoft, in tenths
    world,         \* index of the current world size (viewState.worldWidth/Height)
    trail,         \* mouseWind: the WindTrail object (segments, opts, lastPos, lastDir, ...)
    now,           \* performance.now(), in milliseconds
    gustCooldown,  \* SnowfallLayer.gustCooldown of the mid band, in milliseconds
    puffs,         \* SnowfallLayer.puffs of the mid band: age and life in milliseconds
    puffQueue,     \* snowContext.puffQueue
    sinceBurst,    \* update time since the last gust burst, in milliseconds; -1: none yet
    farFlakes,     \* SnowfallLayer.flakes of the background band
    call,          \* the last operation: its name, arguments and result
    calls          \* number of operations so far

vars == <<budget, groundBins, groundDepth, roofBins, roofDepth, crownBins,
          treeDepth, flakes, windMag, gustBoost, groundWind, groundLoft, world,
          trail, now, gustCooldown, puffs, puffQueue, sinceBurst, farFlakes, call, calls>>

\* the puffs, the gust cooldown and the background band
extras == <<gustCooldown, puffs, puffQueue, sinceBurst, farFlakes>>

----------------------------------------------------------------------------
(* Bounds of the model *)

Scale == 30          \* model units per depth unit
BudgetMax == 9300    \* snowContext.budgetMax, in model units
MaxDepth == 60       \* SnowfallLayer.maxDepth (options.maxDepth), in model units
HouseBins == 3       \* bins of a roof
TreeBins == 2        \* bins of a crown layer
GroundBins == 3      \* bins of the ground strip
MinFlakes == 2       \* least number of flakes of a band
MaxCalls == 3        \* operations of a run
MaxTrailCalls == 4   \* operations on the wind trail of a run
TrailCap == 3        \* opts.trailMaxSegments of the wind trail
TrailLife == 200     \* opts.trailLife of the wind trail, in milliseconds

(* Program constants *)

SNOW_DEFAULT_MAX_DEPTH == 36
MaxPush == 320       \* windConfig().maxPush
CrownLayers == 3     \* crown layers of a tree

----------------------------------------------------------------------------
(* Arithmetic helpers *)

Min(a, b) == IF a <= b THEN a ELSE b

Max(a, b) == IF a >= b THEN a ELSE b

Abs(a) == IF a < 0 THEN -a ELSE a

clamp(lo, hi, v) == Min(hi, Max(lo, v))

\* Math.round of v/d for d > 0: halves go up
RoundDiv(v, d) == (2 * v + d) \div (2 * d)

RECURSIVE SumSeq(_)
SumSeq(s) == IF s = <<>> THEN 0 ELSE Head(s) + SumSeq(Tail(s))

RECURSIVE Flat(_)
Flat(rows) == IF rows = <<>> THEN <<>> ELSE Head(rows) \o Flat(Tail(rows))

\* zero-based access to a bin row
At(bins, i) == bins[i + 1]

Put(bins, i, v) == [bins EXCEPT ![i + 1] = v]

Zeros(n) == [i \in 1..n |-> 0]

average(bins) == SumSeq(bins) \div (IF Len(bins) = 0 THEN 1 ELSE Len(bins))

\* 0.5 + 0.5 * noise1d(t * 0.35 + 7.2) in permille, tabulated for the bins of the model
DuneMilli(t) == CASE t = 0 -> 289 [] t = 1 -> 273 [] t = 2 -> 273
                  [] t = 3 -> 272 [] t = 4 -> 277 [] OTHER -> 317

\* depthCap * (1.1 + dune * 0.7)
LocalCap(depthCap, t) == (depthCap * (1100 + (DuneMilli(t) * 7) \div 10)) \div 1000

GroundDepthCap == SNOW_DEFAULT_MAX_DEPTH * Scale

----------------------------------------------------------------------------
(* Mass budget *)

\* a grant that ignores the budget
ConsumeUnchecked(b, amount) == amount

\* the amount consumeBudget grants
ConsumeUse(b, amount) == Min(amount, Max(0, b))

\* a debit of the requested amount
consumeRequested(b, amount) == b - amount

consumeBudget(b, amount) == b - ConsumeUse(b, amount)

\* a refund without the clamp
refundUnclamped(b, amount) == IF amount <= 0 THEN b ELSE b + amount

refundBudget(b, amount) ==
    IF amount <= 0 THEN b ELSE clamp(0, BudgetMax, b + amount)

----------------------------------------------------------------------------
(* Ground height field.  A ledger L is the record                          *)
(* [budget, groundBins, groundDepth] of the shared snow context.           *)

Ledger(b, g, d) == [budget |-> b, groundBins |-> g, groundDepth |-> d]

\* centre bin of a ground deposit at pixel posX (posX = -1: undefined)
IdxCenter(n, posX, width, gw) ==
    LET base == IF posX = -1 THEN n \div 2
                ELSE clamp(0, n - 1, (posX * (n - 1)) \div width)
        \* windBias = clamp(-1, 1, groundWind.x / groundWindMax), shift = round(windBias * 4)
        shift == IF MaxPush > 0 THEN RoundDiv(clamp(-MaxPush, MaxPush, gw) * 4, MaxPush) ELSE 0
    IN  clamp(0, n - 1, base + shift)

\* one bin of a ring takes min(room, share)
RingAdd(bins, t, share, depthCap) ==
    Min(Max(0, LocalCap(depthCap, t) - At(bins, t)), share)

RECURSIVE GroundRings(_, _, _, _, _)
GroundRings(bins, remaining, radius, idxCenter, depthCap) ==
    IF ~(remaining > 0 /\ radius < Len(bins))
    THEN [bins |-> bins, remaining |-> remaining]
    ELSE LET lo == idxCenter - radius
             hi == idxCenter + radius
             hasLo == lo >= 0
             hasHi == radius # 0 /\ hi < Len(bins)
             count == (IF hasLo THEN 1 ELSE 0) + (IF hasHi THEN 1 ELSE 0)
             share == remaining \div Max(1, count)
             addLo == IF hasLo THEN RingAdd(bins, lo, share, depthCap) ELSE 0
             bins1 == IF hasLo THEN Put(bins, lo, At(bins, lo) + addLo) ELSE bins
             addHi == IF hasHi THEN RingAdd(bins1, hi, share, depthCap) ELSE 0
             bins2 == IF hasHi THEN Put(bins1, hi, At(bins1, hi) + addHi) ELSE bins1
             left == remaining - addLo - addHi
         IN  GroundRings(bins2, (left * 55) \div 100, radius + 1, idxCenter, depthCap)

\* addToGround: the new ledger and the returned amount
addToGround(L, amount, depthCap, posX, width, gw) ==
    IF amount <= 0 THEN [L |-> L, ret |-> 0]
    ELSE IF Len(L.groundBins) = 0
    THEN LET room == Max(0, (depthCap * 3) \div 2 - L.groundDepth)
             added == Min(room, amount)
         IN  [L |-> [L EXCEPT !.groundDepth = @ + added], ret |-> added]
    ELSE LET c == IdxCenter(Len(L.groundBins), posX, width, gw)
             r == GroundRings(L.groundBins, amount, 0, c, depthCap)
         IN  [L |-> [L EXCEPT !.groundBins = r.bins, !.groundDepth = average(r.bins)],
              ret |-> amount - r.remaining]

----------------------------------------------------------------------------
(* Roof deposit *)

\* the whole of an overflow
GroundShareAll(amount, groundFactor) == amount

\* amount * groundFactor: the part of an overflow that is offered to the ground
GroundShare(amount, groundFactor) == (amount * groundFactor) \div 100

\* one lateral neighbour n of addSnowToBins takes its share; the leftover goes to the ground
NeighborStep(st, n, share, groundFactor, depthLimit, depthCap, posX, width, gw) ==
    LET cap == depthLimit - At(st.bins, n)
        add == Max(0, Min(share, cap))
        leftover == share - add
        g == IF leftover > 0
             THEN addToGround(st.L, GroundShare(leftover, groundFactor), depthCap, posX, width, gw)
             ELSE [L |-> st.L, ret |-> 0]
    IN  [L |-> g.L, bins |-> Put(st.bins, n, At(st.bins, n) + add), used |-> st.used + add + g.ret]

RECURSIVE NeighborLoop(_, _, _, _, _, _, _, _, _)
NeighborLoop(st, ns, share, groundFactor, depthLimit, depthCap, posX, width, gw) ==
    IF ns = <<>> THEN st
    ELSE NeighborLoop(NeighborStep(st, Head(ns), share, groundFactor, depthLimit, depthCap, posX, width, gw),
                      Tail(ns), share, groundFactor, depthLimit, depthCap, posX, width, gw)

Neighbors(bins, idx) ==
    (IF idx > 0 THEN <<idx - 1>> ELSE <<>>) \o (IF idx < Len(bins) - 1 THEN <<idx + 1>> ELSE <<>>)

\* the amount addSnowToBins hands back to the budget when it returns early
EarlyRefund(requested, granted, used) == requested - used

\* the amount addSnowToBins hands back to the budget at its end
FinalRefund(requested, granted, used) == Max(0, requested - used)

\* nothing goes to the ground before the neighbours
ToGroundLast(remaining) == 0

\* the part of the overflow of the target bin that goes to the ground before the neighbours
ToGround(remaining) == (remaining * 6) \div 10

\* the ledger after consumeBudget(amount)
Consumed(L, amount) == [L EXCEPT !.budget = consumeBudget(@, amount)]

\* used += addToGround(..): g is the result of the call
Grounded(g, bins, used) == [L |-> g.L, bins |-> bins, used |-> used + g.ret]

\* an early return of addSnowToBins: refundBudget(requested - used)
BinsReturn(L, bins, requested, granted, used) ==
    [L |-> [L EXCEPT !.budget = refundBudget(@, EarlyRefund(requested, granted, used))],
     bins |-> bins]

\* the end of addSnowToBins: the unused part goes back to the budget
BinsRefund(st, requested, granted) ==
    [L |-> [st.L EXCEPT !.budget = refundBudget(@, FinalRefund(requested, granted, st.used))],
     bins |-> st.bins]

\* what the bin idx takes of amount under depthLimit
TargetAdd(bins, idx, amount, depthLimit) ==
    IF depthLimit - At(bins, idx) > 0 THEN Min(amount, depthLimit - At(bins, idx)) ELSE 0

\* the spread over the lateral neighbours, or to the ground when there is none
BinsSpread(st, spread, idx, groundFactor, depthLimit, depthCap, posX, width, gw) ==
    IF spread > 0 /\ Neighbors(st.bins, idx) # <<>>
    THEN NeighborLoop(st, Neighbors(st.bins, idx), spread \div Len(Neighbors(st.bins, idx)),
                      groundFactor, depthLimit, depthCap, posX, width, gw)
    ELSE IF spread > 0
    THEN Grounded(addToGround(st.L, GroundShare(spread, groundFactor), depthCap, posX, width, gw),
                  st.bins, st.used)
    ELSE st

\* the overflow of the target bin: 60% is offered to the ground, the rest is spread
BinsOverflow(L, bins, idx, requested, granted, added, remaining, groundFactor, depthLimit, depthCap, posX, width, gw) ==
    BinsRefund(
        BinsSpread(
            Grounded(addToGround(L, GroundShare(ToGround(remaining), groundFactor),
                                 depthCap, posX, width, gw), bins, added),
            Max(0, remaining - ToGround(remaining)), idx,
            groundFactor, depthLimit, depthCap, posX, width, gw),
        requested, granted)

\* the target bin takes `added`
BinsTarget(L, bins, idx, requested, granted, added, groundFactor, depthLimit, depthCap, posX, width, gw) ==
    IF granted - added <= 0
    THEN BinsReturn(L, Put(bins, idx, At(bins, idx) + added), requested, granted, added)
    ELSE BinsOverflow(L, Put(bins, idx, At(bins, idx) + added), idx, requested, granted, added,
                      granted - added, groundFactor, depthLimit, depthCap, posX, width, gw)

\* an index outside the bins: the grant is offered to the ground
BinsOutside(g, bins, requested, granted) == BinsReturn(g.L, bins, requested, granted, g.ret)

\* addSnowToBins: the new ledger and the new bins of the surface.
\* groundFactor is in percent.
addSnowToBins(L, bins, idx, amount, groundFactor, depthLimit, depthCap, posX, width, gw) ==
    IF amount <= 0 THEN [L |-> L, bins |-> bins]
    ELSE IF ConsumeUse(L.budget, amount) <= 0 THEN [L |-> Consumed(L, amount), bins |-> bins]
    ELSE IF idx < 0 \/ idx >= Len(bins)
    THEN BinsOutside(addToGround(Consumed(L, amount),
                                 GroundShare(ConsumeUse(L.budget, amount), groundFactor),
                                 depthCap, posX, width, gw),
                     bins, amount, ConsumeUse(L.budget, amount))
    ELSE BinsTarget(Consumed(L, amount), bins, idx, amount, ConsumeUse(L.budget, amount),
                    TargetAdd(bins, idx, ConsumeUse(L.budget, amount), depthLimit),
                    groundFactor, depthLimit, depthCap, posX, width, gw)

----------------------------------------------------------------------------
(* Crown deposit *)

\* addSnowToBinsRaw: the new bins and the amount used
addSnowToBinsRaw(bins, idx, amount, depthLimit) ==
    IF amount <= 0 \/ Len(bins) = 0 THEN [bins |-> bins, used |-> 0]
    ELSE
    LET safeIdx == clamp(0, Len(bins) - 1, idx)
        capacity == depthLimit - At(bins, safeIdx)
        add0 == IF capacity > 0 THEN Min(amount, capacity) ELSE 0
        bins1 == Put(bins, safeIdx, At(bins, safeIdx) + add0)
        remaining == amount - add0
        ns == Neighbors(bins, safeIdx)
    IN
    IF remaining <= 0 \/ ns = <<>> THEN [bins |-> bins1, used |-> add0]
    ELSE
    LET share == remaining \div Len(ns)
        n1 == ns[1]
        a1 == Max(0, Min(share, depthLimit - At(bins1, n1)))
        bins2 == Put(bins1, n1, At(bins1, n1) + a1)
        a2 == IF Len(ns) > 1 THEN Max(0, Min(share, depthLimit - At(bins2, ns[2]))) ELSE 0
        bins3 == IF Len(ns) > 1 THEN Put(bins2, ns[2], At(bins2, ns[2]) + a2) ELSE bins2
    IN  [bins |-> bins3, used |-> add0 + a1 + a2]

\* maxDepth * (0.55 + 0.45 * (li / (layers - 1 || 1))): the depth cap of crown layer li
LayerDepthLimit(li, layers) ==
    (MaxDepth * (55 + (45 * li) \div (IF layers - 1 = 0 THEN 1 ELSE layers - 1))) \div 100

\* the spill of addSnowToTreeLayers over the layers li, li-1, .., 0
RECURSIVE SpillBelow(_, _, _, _, _, _)
SpillBelow(rows, li, spillRemaining, used, idx, shift) ==
    IF ~(li >= 0 /\ spillRemaining > 0)
    THEN [rows |-> rows, spillRemaining |-> spillRemaining, used |-> used]
    ELSE LET binsBelow == rows[li + 1]
             spillIdx == clamp(0, Len(binsBelow) - 1, idx + shift)
             r == addSnowToBinsRaw(binsBelow, spillIdx, spillRemaining, LayerDepthLimit(li, Len(rows)))
         IN  SpillBelow([rows EXCEPT ![li + 1] = r.bins], li - 1,
                        spillRemaining - r.used, used + r.used, idx, shift)

\* spill = remaining * 0.85
Spill(remaining) == (remaining * 85) \div 100

\* Math.round(windBias * 2 + sideBias) for a hit on bin idx of n bins; windBias = windX / MaxPush
SpillShift(idx, n, windX) ==
    RoundDiv(windX * 20 + (IF 2 * idx < n THEN -6 ELSE 6) * MaxPush, 10 * MaxPush)

\* used += addToGround(..): g is the result of the call
GroundedRows(g, rows, used) == [L |-> g.L, rows |-> rows, used |-> used + g.ret]

\* what the layers below did not take goes to the ground at 45%
TreeSpillGround(L, sp, posX, width, gw) ==
    IF sp.spillRemaining > 0
    THEN GroundedRows(addToGround(L, (sp.spillRemaining * 45) \div 100, GroundDepthCap, posX, width, gw),
                      sp.rows, sp.used)
    ELSE [L |-> L, rows |-> sp.rows, used |-> sp.used]

\* what was not spilled goes to the ground at 35%
TreeRest(st, remaining, posX, width, gw) ==
    IF remaining > 0
    THEN GroundedRows(addToGround(st.L, (remaining * 35) \div 100, GroundDepthCap, posX, width, gw),
                      st.rows, st.used)
    ELSE st

\* the end of addSnowToTreeLayers: the unused part goes back to the budget
TreeRefund(st, allocated) ==
    [L |-> [st.L EXCEPT !.budget = refundBudget(@, Max(0, allocated - st.used))], rows |-> st.rows]

\* the part of the grant the hit layer did not take
TreeOverflow(L, rows, layerIndex, idx, used, remaining, posX, windX, width, gw) ==
    TreeRest(
        TreeSpillGround(L, SpillBelow(rows, layerIndex - 1, Spill(remaining), used, idx,
                                      SpillShift(idx, Len(rows[layerIndex + 1]), windX)),
                        posX, width, gw),
        remaining - Spill(remaining), posX, width, gw)

\* r is the result of addSnowToBinsRaw on the hit layer
TreeApplied(L, rows, layerIndex, idx, allocated, r, posX, windX, width, gw) ==
    IF allocated - r.used > 0
    THEN TreeRefund(TreeOverflow(L, [rows EXCEPT ![layerIndex + 1] = r.bins], layerIndex, idx,
                                 r.used, allocated - r.used, posX, windX, width, gw), allocated)
    ELSE TreeRefund([L |-> L, rows |-> [rows EXCEPT ![layerIndex + 1] = r.bins], used |-> r.used],
                    allocated)

\* addSnowToTreeLayers: the new ledger and the new bin rows of the tree.
\* windBias is given as the clamped wind windX: windBias = windX / MaxPush.
addSnowToTreeLayers(L, rows, layerIndex, idx, amount, depthLimit, posX, windX, width, gw) ==
    IF amount <= 0 THEN [L |-> L, rows |-> rows]
    ELSE IF ConsumeUse(L.budget, amount) <= 0 THEN [L |-> Consumed(L, amount), rows |-> rows]
    ELSE TreeApplied(Consumed(L, amount), rows, layerIndex, idx, ConsumeUse(L.budget, amount),
                     addSnowToBinsRaw(rows[layerIndex + 1], idx, ConsumeUse(L.budget, amount), depthLimit),
                     posX, windX, width, gw)

----------------------------------------------------------------------------
(* The scene: the geometry the silhouette layers supply *)

\* viewState.worldWidth and worldHeight of the world sizes of the model, in pixels
WorldWidth(w) == 58 + 4 * w

WorldHeight(w) == 44 + 2 * w

Worlds == {1, 2}

\* getRoofBounds of the house: x = 6, width = 16, roofOverhang = 2
Roof == [left |-> 4, right |-> 24, apexX |-> 14, yBase |-> 30, roofHeight |-> 8]

\* getCrownLayers of a tree with x = 34, width = 24, height = 36, trunkRatio = 0.22,
\* layerJitter = <<0.4, -0.4, 0.4>> on the ground line y = 44, rounded to pixels.
\* Layer 0 is the lowest layer of the crown.
CrownGeom(li) ==
    CASE li = 0 -> [left |-> 33, right |-> 62, baseY |-> 36, height |-> 9, apexX |-> 48,
                    hitPoly |-> << <<32, 35>>, <<48, 32>>, <<56, 36>>, <<61, 37>>, <<33, 35>> >>]
      [] li = 1 -> [left |-> 35, right |-> 54, baseY |-> 29, height |-> 8, apexX |-> 44,
                    hitPoly |-> << <<35, 30>>, <<44, 26>>, <<51, 28>>, <<55, 29>>, <<36, 29>> >>]
      [] OTHER  -> [left |-> 39, right |-> 56, baseY |-> 24, height |-> 8, apexX |-> 48,
                    hitPoly |-> << <<39, 24>>, <<47, 20>>, <<53, 22>>, <<56, 23>>, <<39, 23>> >>]

\* one edge (pi, pj) of the ray cast of pointInPoly
EdgeCrosses(px, py, pi, pj) ==
    LET xi == pi[1]
        yi == pi[2]
        xj == pj[1]
        yj == pj[2]
    IN  /\ (yi > py) # (yj > py)
        \* px < (xj - xi) * (py - yi) / (yj - yi) + xi
        /\ IF yj - yi > 0
           THEN (px - xi) * (yj - yi) < (xj - xi) * (py - yi)
           ELSE (px - xi) * (yj - yi) > (xj - xi) * (py - yi)

pointInPoly(px, py, poly) ==
    IF Len(poly) < 3 THEN FALSE
    ELSE LET prev(i) == IF i = 1 THEN Len(poly) ELSE i - 1
             crossings == Cardinality({i \in 1..Len(poly) : EdgeCrosses(px, py, poly[i], poly[prev(i)])})
         IN  crossings % 2 = 1

\* the roof test of handleCollision
InRoof(x, y) ==
    /\ ~(x < Roof.left \/ x > Roof.right)
    \* yLine = yBase - roofHeight * (1 - |t - 0.5| * 2) with t = (x - left) / span
    /\ LET span == Roof.right - Roof.left
       IN  /\ (Roof.yBase - y) * span <= Roof.roofHeight * (span - Abs(2 * (x - Roof.left) - span))
           /\ y <= Roof.yBase

\* the crown test of handleCollision for layer li
InCrown(x, y, li) ==
    /\ ~(x < CrownGeom(li).left \/ x > CrownGeom(li).right)
    /\ pointInPoly(x, y, CrownGeom(li).hitPoly)

\* the crown layer handleCollision hits, scanning from the top layer down; -1: none
RECURSIVE HitLayer(_, _, _)
HitLayer(x, y, li) ==
    IF li < 0 THEN -1
    ELSE IF InCrown(x, y, li) THEN li
    ELSE HitLayer(x, y, li - 1)

----------------------------------------------------------------------------
(* Flakes *)

\* a tick of 0.1 s, in milliseconds
DtMs == 100

\* seedFlakes: the number of flakes of the mid band, density 0.00035
FlakeCount(w) == Max(MinFlakes, (WorldWidth(w) * WorldHeight(w) * 105) \div 100000)

\* makeFlake: the flake a seeding puts in slot i, above the roof or above the crown
makeFlake(i) ==
    IF i % 2 = 1 THEN [x |-> 14, y |-> 20, vy |-> 40, drift |-> 0, radius |-> 2]
    ELSE [x |-> 47, y |-> 17, vy |-> 40, drift |-> 0, radius |-> 3]

\* seedFlakes
seedFlakes(w) == [i \in 1..FlakeCount(w) |-> makeFlake(i)]

\* a flake that is left where it is
resetNever(f, randomX, rx) == f

\* resetFlake(f, randomX) with the random column rx
resetFlake(f, randomX, rx) ==
    [f EXCEPT !.y = -(f.radius * 2), !.x = IF randomX THEN rx ELSE f.x]

\* a launch that adds a flake to the pool
launchNew(fs, k, x, y, upwardVel, drift) ==
    Append(fs, [x |-> x, y |-> y, vy |-> -Abs(upwardVel), drift |-> drift, radius |-> fs[k].radius])

\* launchFlake: flake k of the pool departs from (x, y)
launchFlake(fs, k, x, y, upwardVel, drift) ==
    [fs EXCEPT ![k] = [@ EXCEPT !.x = x, !.y = y, !.vy = -Abs(upwardVel), !.drift = drift]]

\* the integration of one flake over DtMs
Integrate(f, windX, windY) ==
    LET maxLift == -((f.vy * 6) \div 10)
        effectiveVy == clamp(maxLift, MaxPush, f.vy + windY)
    IN  [f EXCEPT !.x = f.x + ((windX + f.drift) * DtMs) \div 1000,
                  !.y = f.y + (effectiveVy * DtMs) \div 1000]

\* wrap at the world edges
Wrap(f, width) ==
    LET x1 == IF f.x < -10 THEN f.x + width + 10 ELSE f.x
        x2 == IF x1 > width + 10 THEN x1 - (width + 10) ELSE x1
    IN  [f EXCEPT !.x = x2]

\* amountScale of handleCollision in permille; windX is the clamped wind, slopeDir -1 or 1
AmountScale(windX, slopeDir, down, up) ==
    IF windX * slopeDir > 0
    THEN 1000 - Min(down, (Abs(windX) * down) \div MaxPush)
    ELSE 1000 + Min(up, (Abs(windX) * up) \div MaxPush)

\* probabilities of shouldStick are counted in units of 1 / StickUnit, in which
\* 0.78 - mag / 320 and its product with 0.45 are whole numbers for a whole mag
StickUnit == 640000

\* baseProb = 0.78 - mag / 320
StickBase(mag) == (78 * StickUnit) \div 100 - (mag * StickUnit) \div 320

\* a gust factor that raises the probability where the source lowers it
StickProbRaised(mag) ==
    clamp((8 * StickUnit) \div 100, (90 * StickUnit) \div 100,
          IF mag > 140 THEN (StickBase(mag) * 145) \div 100 ELSE StickBase(mag))

\* the probability shouldStick compares its draw with:
\* clamp(0.08, 0.9, baseProb * (mag > 140 ? 0.45 : 1))
StickProb(mag) ==
    clamp((8 * StickUnit) \div 100, (90 * StickUnit) \div 100,
          IF mag > 140 THEN (StickBase(mag) * 45) \div 100 ELSE StickBase(mag))

\* shouldStick(windMag) with the draw rnd of Math.random(), in units of 1 / StickUnit
shouldStick(mag, rnd) == rnd < StickProb(mag)

----------------------------------------------------------------------------
(* Wind erosion (update, the block under windMag > 50) *)

\* erosion = ((windMag - 50) / 1400) * gustFactor, in thousandths of a model unit
Erosion(mag, gb) == ((mag - 50) * Scale * (1000 + 12 * gb)) \div 1400

\* liftChance in permille
LiftChance(mag, gb) == clamp(0, 750, ((mag - 50) * (1000 + 12 * gb)) \div 380)

\* loftBoost in permille
LoftBoost(mag, gb) == clamp(400, 1600, ((mag - 40) * (1000 + 12 * gb)) \div 260)

\* one bin after erosion * (base + Math.random()); base and rnd in percent
ErodeBin(before, erosion, base, rnd) == Max(0, before - (erosion * (base + rnd)) \div 100000)

\* the bin loop of one surface: every bin is eroded and what it lost is refunded
RECURSIVE ErodeBins(_, _, _, _, _, _, _)
ErodeBins(bins, i, b, removedTotal, erosion, base, rnd) ==
    IF i >= Len(bins) THEN [bins |-> bins, budget |-> b, removed |-> removedTotal]
    ELSE LET before == At(bins, i)
             after == ErodeBin(before, erosion, base, rnd)
             removed == before - after
         IN  ErodeBins(Put(bins, i, after), i + 1,
                       IF removed > 0 THEN refundBudget(b, removed) ELSE b,
                       removedTotal + (IF removed > 0 THEN removed ELSE 0), erosion, base, rnd)

\* the layer loop of the tree
RECURSIVE ErodeRows(_, _, _, _, _, _)
ErodeRows(rows, li, b, removedByRow, erosion, rnd) ==
    IF li >= Len(rows) THEN [rows |-> rows, budget |-> b, removed |-> removedByRow]
    ELSE LET r == ErodeBins(rows[li + 1], 0, b, 0, erosion, 40, rnd)
         IN  ErodeRows([rows EXCEPT ![li + 1] = r.bins], li + 1, r.budget,
                       Append(removedByRow, r.removed), erosion, rnd)

\* the ground step: the scalar depth sinks by erosion * 0.25
ErodeGround(gd, erosion) == Max(0, gd - (erosion * 25) \div 100000)

\* the launch requests of a pass in the order the pass issues them:
\* <<number of launches, x, y, strength in permille, span, height>> per source
LaunchPlan(mag, gb, rnd, roofRemoved, rowRemoved, groundRemoved, gbins, width, height) ==
    LET lift == IF rnd * 10 < LiftChance(mag, gb) THEN 1 ELSE 0
        lb == LoftBoost(mag, gb)
        roofExtra == IF roofRemoved > 0
                     THEN Min(6, (roofRemoved * 80 + mag * Scale) \div (100 * Scale)) ELSE 0
        crownY(li) == CrownGeom(li).baseY - CrownGeom(li).height \div 2
        rowExtra(li) == IF rowRemoved[li + 1] > 0 THEN Min(3, (rowRemoved[li + 1] * 9) \div (10 * Scale)) ELSE 0
        treeRemoved == SumSeq(rowRemoved)
        treeExtra == IF treeRemoved > 0 THEN Min(4, (treeRemoved * 45) \div (100 * Scale)) ELSE 0
        mid == Len(rowRemoved) \div 2
        groundExtra == IF groundRemoved > 0
                       THEN Min(10, (groundRemoved * 1400 + mag * 15 * Scale) \div (1000 * Scale)) ELSE 0
        gx == (rnd * width) \div 100
        gidx == clamp(0, Len(gbins) - 1, (gx * (Len(gbins) - 1)) \div width)
        gh == clamp(0, (SNOW_DEFAULT_MAX_DEPTH * 32) \div 10, (At(gbins, gidx) * 12) \div (10 * Scale))
        roofSpan == Roof.right - Roof.left
        span(li) == CrownGeom(li).right - CrownGeom(li).left
    IN  << <<lift, Roof.apexX, Roof.yBase, 1000, roofSpan, Roof.roofHeight>>,
           <<roofExtra, Roof.apexX, Roof.yBase, 800 + lb, roofSpan, Roof.roofHeight>> >>
        \o Flat([li \in 1..Len(rowRemoved) |->
                 << <<lift, CrownGeom(li - 1).apexX, crownY(li - 1), 700 + (lb * 6) \div 10,
                      span(li - 1), CrownGeom(li - 1).height>>,
                    <<rowExtra(li - 1), CrownGeom(li - 1).apexX, crownY(li - 1), 700 + lb,
                      span(li - 1), CrownGeom(li - 1).height>> >>])
        \o << <<treeExtra, CrownGeom(mid).apexX,
                CrownGeom(mid).baseY - (CrownGeom(mid).height * 4) \div 10, 1000,
                span(mid), CrownGeom(mid).height>>,
              <<groundExtra, gx, height - gh, 600 + lb \div 2, 24, 18>> >>

\* every launch of a plan departs
RECURSIVE RunPlanUncapped(_, _, _, _)
RunPlanUncapped(plan, lofted, loftCap, last) ==
    IF plan = <<>> THEN [lofted |-> lofted, last |-> last]
    ELSE RunPlanUncapped(Tail(plan), lofted + Head(plan)[1], loftCap,
                         IF Head(plan)[1] > 0 THEN Head(plan) ELSE last)

\* the launches of a plan that pass `lofted >= loftCap`: their number and the last of them
RECURSIVE RunPlan(_, _, _, _)
RunPlan(plan, lofted, loftCap, last) ==
    IF plan = <<>> THEN [lofted |-> lofted, last |-> last]
    ELSE LET n == Min(Head(plan)[1], Max(0, loftCap - lofted))
         IN  RunPlan(Tail(plan), lofted + n, loftCap, IF n > 0 THEN Head(plan) ELSE last)

\* loftCap = 24 + floor(gustBoost * 12)
LoftCap(gb) == 24 + (gb * 12) \div 100

\* the upward speed launch hands to launchFlake
LaunchSpeed(rnd, strength) == -30 - (rnd * 50) \div 100 - (strength * 18) \div 1000

\* launch(x, y, span, height, strength) of plan entry e: flake k departs
launch(fs, k, e, rnd) ==
    LET jitterX == ((rnd - 50) * Max(800, e[5] * 35)) \div 10000
        jitterY == -((rnd * Max(600, e[6] * 20)) \div 10000)
    IN  launchFlake(fs, k, e[2] + jitterX, e[3] + jitterY, LaunchSpeed(rnd, e[4]), ((rnd - 50) * 6) \div 100)

----------------------------------------------------------------------------
(* Ground drift (updateGroundDrift) *)

\* strength = clamp(0, 1, |windX| / maxPush * 1.6 + gustBoost * 0.6), in permille
DriftStrength(gw, gb) ==
    clamp(0, 1000, (Abs(gw) * 1600) \div (IF MaxPush = 0 THEN 1 ELSE MaxPush) + gb * 6)

\* jitter = 0.65 + 0.35 * (0.5 + 0.5 * noise), in permille; the noise sample is rnd percent
DriftJitter(rnd) == 650 + (350 * rnd) \div 100

\* move = min(bins[i], bins[i] * flow * jitter), flow = strength * dt * 5.2
DriftMove(b, strength, rnd) ==
    Min(b, (b * ((strength * DtMs * 52) \div 10000) * DriftJitter(rnd)) \div 1000000)

\* a downwind pass in which what a bin hands on is blown off the field
RECURSIVE DownwindBlownOff(_, _, _, _, _)
DownwindBlownOff(bins, i, direction, strength, rnd) ==
    IF (direction > 0 /\ i >= Len(bins) - 1) \/ (direction < 0 /\ i <= 0) THEN bins
    ELSE DownwindBlownOff(Put(bins, i, At(bins, i) - DriftMove(At(bins, i), strength, rnd)),
                          i + direction, direction, strength, rnd)

\* the downwind pass: bin i hands `move` to its downwind neighbour, in loop order
RECURSIVE Downwind(_, _, _, _, _)
Downwind(bins, i, direction, strength, rnd) ==
    IF (direction > 0 /\ i >= Len(bins) - 1) \/ (direction < 0 /\ i <= 0) THEN bins
    ELSE LET move == DriftMove(At(bins, i), strength, rnd)
             b1 == Put(bins, i, At(bins, i) - move)
             b2 == Put(b1, i + direction, At(b1, i + direction) + move)
         IN  Downwind(b2, i + direction, direction, strength, rnd)

\* slopeLimit = 1.1 + strength * 4.8, in model units
SlopeLimit(strength) == (Scale * (1100 + (strength * 48) \div 10)) \div 1000

\* a relaxation pass that slides twice the excess
RECURSIVE RelaxSteep(_, _, _)
RelaxSteep(bins, i, slopeLimit) ==
    IF i >= Len(bins) - 1 THEN bins
    ELSE LET diff == At(bins, i) - At(bins, i + 1)
             slide == (Abs(diff) - slopeLimit) * 2
             b1 == IF Abs(diff) <= slopeLimit THEN bins
                   ELSE IF diff > 0
                   THEN Put(Put(bins, i, At(bins, i) - slide), i + 1, At(bins, i + 1) + slide)
                   ELSE Put(Put(bins, i, At(bins, i) + slide), i + 1, At(bins, i + 1) - slide)
         IN  RelaxSteep(b1, i + 1, slopeLimit)

\* the slope relaxation pass
RECURSIVE Relax(_, _, _)
Relax(bins, i, slopeLimit) ==
    IF i >= Len(bins) - 1 THEN bins
    ELSE LET diff == At(bins, i) - At(bins, i + 1)
             slide == ((Abs(diff) - slopeLimit) * 45) \div 100
             b1 == IF Abs(diff) <= slopeLimit THEN bins
                   ELSE IF diff > 0
                   THEN Put(Put(bins, i, At(bins, i) - slide), i + 1, At(bins, i + 1) + slide)
                   ELSE Put(Put(bins, i, At(bins, i) + slide), i + 1, At(bins, i + 1) - slide)
         IN  Relax(b1, i + 1, slopeLimit)

\* the loft loop: groundLoft in tenths, h the launch height of the sampled bin in tenths
RECURSIVE LoftLoop(_, _, _, _)
LoftLoop(gl, lofted, attempts, h) ==
    IF ~(gl >= 10 /\ lofted < 28 /\ attempts < 70)
    THEN [groundLoft |-> gl, lofted |-> lofted, attempts |-> attempts]
    ELSE IF h < 15 THEN LoftLoop(gl - 3, lofted, attempts + 1, h)
    ELSE LoftLoop(gl - 7, lofted + 1, attempts + 1, h)

\* updateGroundDrift: the new bins, depth, loft accumulator and flakes
updateGroundDrift(bins, gd, gl, fs, gw, gb, rnd, k, width, height) ==
    LET strength == DriftStrength(gw, gb)
        direction == IF gw >= 0 THEN 1 ELSE -1
        b1 == Downwind(bins, IF direction > 0 THEN 0 ELSE Len(bins) - 1, direction, strength, rnd)
        b2 == Relax(b1, 0, SlopeLimit(strength))
        idx == (rnd * Len(bins)) \div 100
        h == clamp(0, (SNOW_DEFAULT_MAX_DEPTH * 32), (At(b2, idx) * 12) \div Scale)
        x == (idx * width) \div (IF Len(bins) - 1 = 0 THEN 1 ELSE Len(bins) - 1)
        acc == Min(600, gl + (strength * 80 * DtMs) \div 100000)
        loft == IF gd * 10 > 2 * Scale THEN LoftLoop(acc, 0, 0, h)
                ELSE [groundLoft |-> 0, lofted |-> 0, attempts |-> 0]
        upward == -20 - (strength * 70) \div 1000 - (rnd * 40) \div 100
    IN  IF Len(bins) = 0 \/ strength < 5
        THEN [bins |-> bins, groundDepth |-> gd, groundLoft |-> gl, flakes |-> fs,
              lofted |-> 0, attempts |-> 0]
        ELSE [bins |-> b2, groundDepth |-> average(b2), groundLoft |-> loft.groundLoft,
              lofted |-> loft.lofted, attempts |-> loft.attempts,
              flakes |-> IF loft.lofted > 0
                         THEN launchFlake(fs, k, x + ((rnd - 50) * 18) \div 100, height - h \div 10,
                                          upward, ((rnd - 50) * 6) \div 100)
                         ELSE fs]

----------------------------------------------------------------------------
(* The wind trail (WindTrail, the object mouseWind) *)

\* the options a WindTrail starts with: times in milliseconds, lengths in pixels,
\* speeds in pixels per second, factors in permille, decay in percent.  Points and
\* lengths of segments are kept in tenths of a pixel, winds in hundredths of a pixel
\* per second.
defaults ==
    [trailLife |-> 2200, trailRadius |-> 100, trailRadiusMax |-> 180, trailSpacing |-> 12,
     trailMaxSegments |-> 360, minSpeed |-> 60, speedScale |-> 80, jitter |-> 80,
     decay |-> 6, swirl |-> 200, ambientJitter |-> 500, maxPush |-> MaxPush,
     pullStrength |-> 400, ejectChance |-> 500, ejectBoost |-> 2200, ejectWindow |-> 350]

\* a WindTrail after construction and setOptions(opts); lastPos and lastDir are <<>>
\* for null; made counts the segments ever pushed
NewTrail(opts) ==
    [segments |-> <<>>, opts |-> opts, lastPos |-> <<>>, lastDir |-> <<>>, lastSpeed |-> 0,
     lastMoveTime |-> 0, time |-> 0, made |-> 0]

\* the whole part of the square root of n, searched between lo and hi
RECURSIVE SqrtBetween(_, _, _)
SqrtBetween(n, lo, hi) ==
    IF lo >= hi THEN lo
    ELSE LET mid == (lo + hi + 1) \div 2
         IN  IF mid * mid <= n THEN SqrtBetween(n, mid, hi) ELSE SqrtBetween(n, lo, mid - 1)

\* Math.hypot(a, b), truncated
hypot(a, b) == SqrtBetween(a * a + b * b, 0, Abs(a) + Abs(b))

\* Math.ceil(a / b) for a >= 0, b > 0
CeilDiv(a, b) == (a + b - 1) \div b

\* Math.atan2(cross, dot) / Math.PI in permille: exact on the axes (0, 1/2, -1/2, 1),
\* between them the angle is taken proportional to |cross| / (|cross| + |dot|)
TurnOf(cross, dot) ==
    IF cross = 0 THEN (IF dot >= 0 THEN 0 ELSE 1000)
    ELSE LET q == (Abs(cross) * 500) \div (Abs(cross) + Abs(dot))
             a == IF dot >= 0 THEN q ELSE 1000 - q
         IN  IF cross > 0 THEN a ELSE -a

\* a spin of a quarter turn whatever the directions
SpinQuarter(lastDir, dirX, dirY) == 500

\* spin of a new segment with direction (dirX, dirY) after lastDir
SpinOf(lastDir, dirX, dirY) ==
    IF lastDir = <<>> THEN 0
    ELSE clamp(-1000, 1000, TurnOf(lastDir[1] * dirY - lastDir[2] * dirX,
                                   lastDir[1] * dirX + lastDir[2] * dirY))

\* rMax of a new segment, in pixels; rnd is the draw of Math.random() in percent
RMaxOf(o, speed, rnd) ==
    o.trailRadius + (rnd * o.jitter * o.trailRadius) \div 100000
        + (speed * (o.trailRadiusMax - o.trailRadius)) \div o.maxPush

\* the segment from p0 to p1 (tenths of a pixel) that onPointerMove pushes: dir in
\* permille, len in tenths of a pixel, speed (push) in hundredths of a pixel per second,
\* age in hundredths of a
\* millisecond, life in milliseconds, spin in permille.  id is the ordinal of the push
\* and born the trail time of the push; the source keeps neither.
MakeSeg(t, p0, p1, speed, rnd) ==
    LET segLen == hypot(p1[1] - p0[1], p1[2] - p0[2])
        dirX == ((p1[1] - p0[1]) * 1000) \div (IF segLen = 0 THEN 10 ELSE segLen)
        dirY == ((p1[2] - p0[2]) * 1000) \div (IF segLen = 0 THEN 10 ELSE segLen)
    IN  [p0 |-> p0, p1 |-> p1, dir |-> <<dirX, dirY>>, len |-> segLen,
         rMax |-> RMaxOf(t.opts, speed, rnd), speed |-> (speed * t.opts.speedScale) \div 10,
         age |-> 0, life |-> t.opts.trailLife, spin |-> SpinOf(t.lastDir, dirX, dirY),
         id |-> t.made + 1, born |-> t.time]

\* the loop of onPointerMove over the steps i..steps-1 from prev with step (stepX, stepY)
RECURSIVE PushSegs(_, _, _, _, _, _, _, _)
PushSegs(t, i, steps, prev, stepX, stepY, speed, rnd) ==
    IF i >= steps THEN t
    ELSE LET seg == MakeSeg(t, <<prev[1] + stepX * i, prev[2] + stepY * i>>,
                            <<prev[1] + stepX * (i + 1), prev[2] + stepY * (i + 1)>>, speed, rnd)
         IN  PushSegs([t EXCEPT !.segments = Append(@, seg), !.lastDir = seg.dir, !.made = @ + 1],
                      i + 1, steps, prev, stepX, stepY, speed, rnd)

\* a trim that drops the newest segments
TrimNewest(segs, cap) == IF Len(segs) > cap THEN SubSeq(segs, 1, cap) ELSE segs

\* segments.splice(0, length - trailMaxSegments) when the list is longer than the cap
TrimOldest(segs, cap) == IF Len(segs) > cap THEN SubSeq(segs, Len(segs) - cap + 1, Len(segs)) ELSE segs

\* the part of onPointerMove after both early returns: prev and dist in tenths of a pixel
Ingest(t, prev, x, y, dist, speed, rnd) ==
    LET steps == Max(1, CeilDiv(dist, t.opts.trailSpacing * 10))
        pushed == PushSegs(t, 0, steps, prev, (x * 10 - prev[1]) \div steps,
                           (y * 10 - prev[2]) \div steps, speed, rnd)
    IN  [pushed EXCEPT !.segments = TrimOldest(@, t.opts.trailMaxSegments)]

\* an onPointerMove without the test of the speed
onPointerMoveAnySpeed(t, x, y, vx, vy, nowTime, rnd) ==
    LET speed == Min(t.opts.maxPush, hypot(vx, vy))
        prev == t.lastPos
        t1 == [t EXCEPT !.lastSpeed = speed, !.lastMoveTime = nowTime, !.lastPos = <<x, y>>]
    IN  IF prev = <<>> \/ nowTime - t.lastMoveTime > 120 THEN [t1 EXCEPT !.lastDir = <<>>]
        ELSE IF hypot((x - prev[1]) * 10, (y - prev[2]) * 10) < t.opts.trailSpacing * 10
        THEN t1
        ELSE Ingest(t1, <<prev[1] * 10, prev[2] * 10>>, x, y,
                    hypot((x - prev[1]) * 10, (y - prev[2]) * 10), speed, rnd)

\* onPointerMove(x, y, vx, vy) at performance.now() = nowTime
onPointerMove(t, x, y, vx, vy, nowTime, rnd) ==
    LET speed == Min(t.opts.maxPush, hypot(vx, vy))
        elapsed == nowTime - t.lastMoveTime
        prev == t.lastPos
        t1 == [t EXCEPT !.lastSpeed = speed, !.lastMoveTime = nowTime, !.lastPos = <<x, y>>]
    IN  IF prev = <<>> \/ elapsed > 120 THEN [t1 EXCEPT !.lastDir = <<>>]
        ELSE IF speed < t.opts.minSpeed
                \/ hypot((x - prev[1]) * 10, (y - prev[2]) * 10) < t.opts.trailSpacing * 10
        THEN t1
        ELSE Ingest(t1, <<prev[1] * 10, prev[2] * 10>>, x, y,
                    hypot((x - prev[1]) * 10, (y - prev[2]) * 10), speed, rnd)

\* Math.exp(-x) in permille for x in thousandths, 0 <= x <= 300: the series to x^3
ExpNeg(x) == 1000 - x + (x * x) \div 2000 - (x * x * x) \div 6000000

\* a segment of life s.life is spliced out when s.age > s.life
Expired(s) == s.age > s.life * 100

\* the loop of update over one segment list
AgeSegs(segs, dt, decay) ==
    LET aged == [i \in 1..Len(segs) |-> [segs[i] EXCEPT !.age = @ + dt * (100 + decay)]]
        Kept(s) == ~Expired(s)
    IN  SelectSeq(aged, Kept)

\* update(dt), dt in milliseconds
update(t, dt) ==
    [t EXCEPT !.time = @ + dt,
              !.lastSpeed = (@ * ExpNeg((dt * 26) \div 10)) \div 1000,
              !.segments = AgeSegs(@, dt, t.opts.decay)]

\* smoothstep(edge0, edge1, x) in permille
smoothstep(edge0, edge1, x) ==
    LET t == clamp(0, 1000, ((x - edge0) * 1000) \div (edge1 - edge0))
    IN  (((t * t) \div 1000) * (3000 - 2 * t)) \div 1000

\* Math.sin(a) in permille for a in thousandths of a radian (Bhaskara's formula on a
\* half period, pi = 3.142)
SinMilli(a) ==
    LET r == a % 6284
        x == IF r <= 3142 THEN r ELSE r - 3142
        b == (16 * x * (3142 - x)) \div ((5 * 3142 * 3142 - 4 * x * (3142 - x)) \div 1000)
    IN  IF r <= 3142 THEN b ELSE -b

\* Math.cos(a) in permille
CosMilli(a) == SinMilli(a + 1571)

\* the ambient jitter of getWindAt at (px, py), in hundredths of a pixel per second
Ambient(t, px, py) ==
    IF t.opts.ambientJitter > 0
    THEN << (SinMilli(px * 20 + (t.time * 12) \div 10 + py * 4) * t.opts.ambientJitter) \div 20000,
            (CosMilli(py * 20 - (t.time * 11) \div 10 - px * 5) * t.opts.ambientJitter) \div 20000 >>
    ELSE <<0, 0>>

\* the quick reject of getWindAt by bounding radius; (x, y) in tenths of a pixel
Rejected(s, x, y) ==
    \/ x < Min(s.p0[1], s.p1[1]) - s.rMax * 10
    \/ x > Max(s.p0[1], s.p1[1]) + s.rMax * 10
    \/ y < Min(s.p0[2], s.p1[2]) - s.rMax * 10
    \/ y > Max(s.p0[2], s.p1[2]) + s.rMax * 10

\* the lateral offset (latX, latY) of (x, y) from its projection onto the segment
Lateral(s, x, y) ==
    LET along == ((x - s.p0[1]) * s.dir[1] + (y - s.p0[2]) * s.dir[2]) \div 1000
        t == clamp(0, 1000, (along * 1000) \div (IF s.len = 0 THEN 10 ELSE s.len))
    IN  << x - (s.p0[1] + (s.dir[1] * ((s.len * t) \div 1000)) \div 1000),
           y - (s.p0[2] + (s.dir[2] * ((s.len * t) \div 1000)) \div 1000) >>

\* tAge = clamp(0, 1, 1 - age / life) in permille
TAge(s) == clamp(0, 1000, 1000 - (s.age * 10) \div s.life)

\* a product of a speed with factors in permille
Scaled(speed, f1, f2, f3) == (((((speed * f1) \div 1000) * f2) \div 1000) * f3) \div 1000

\* push along the segment plus the nozzle boost, as a length along dir
AlongPush(s, o, tLat, tAge) ==
    Scaled(s.speed, tLat, tAge, 600 + (400 * ((tLat * tLat) \div 1000)) \div 1000)
    + Scaled((s.speed * o.ejectBoost) \div 1000, o.ejectChance,
             smoothstep(1000 - clamp(50, 900, o.ejectWindow), 1000, tAge), tLat)

\* swirl around and pull towards the segment for the unit lateral (nx, ny), dist > 0
AcrossPush(s, o, nx, ny, tLat, tAge) ==
    LET spinMag == Abs(s.spin)
        swirlSpeed == Scaled((s.speed * o.swirl) \div 1000, tLat, tAge, 200 + (800 * spinMag) \div 1000)
        swirlDir == IF s.spin < 0 THEN -1 ELSE 1
        pull == Scaled((s.speed * o.pullStrength) \div 1000, 650 + (700 * spinMag) \div 1000, tLat, tAge)
    IN  << (-ny * swirlSpeed * swirlDir) \div 1000 + (-nx * ((pull * 3) \div 10)) \div 1000,
           (nx * swirlSpeed * swirlDir) \div 1000 + (-ny * ((pull * 3) \div 10)) \div 1000 >>

\* the wind of one segment at lateral offset lat with distance dist <= rMax
SegForce(s, o, lat, dist, along) ==
    LET across == IF dist > 0
                  THEN AcrossPush(s, o, (lat[1] * 1000) \div dist, (lat[2] * 1000) \div dist,
                                  1000 - smoothstep(0, s.rMax * 10, dist), TAge(s))
                  ELSE <<0, 0>>
    IN  << (s.dir[1] * along) \div 1000 + across[1], (s.dir[2] * along) \div 1000 + across[2] >>

\* the wind of one segment at lateral offset lat
SegAt(s, o, lat, dist) ==
    IF dist > s.rMax * 10 THEN <<0, 0>>
    ELSE SegForce(s, o, lat, dist,
                  AlongPush(s, o, 1000 - smoothstep(0, s.rMax * 10, dist), TAge(s)))

\* what one segment adds to (ux, uy) at (x, y), in hundredths of a pixel per second
SegWind(s, o, x, y) ==
    IF Rejected(s, x, y) THEN <<0, 0>>
    ELSE SegAt(s, o, Lateral(s, x, y), hypot(Lateral(s, x, y)[1], Lateral(s, x, y)[2]))

\* the segment loop of getWindAt
RECURSIVE SumWind(_, _, _, _, _)
SumWind(segs, o, x, y, u) ==
    IF segs = <<>> THEN u
    ELSE LET w == SegWind(segs[Len(segs)], o, x, y)
         IN  SumWind(SubSeq(segs, 1, Len(segs) - 1), o, x, y, <<u[1] + w[1], u[2] + w[2]>>)

\* the cap of getWindAt on the magnitude mag of u
CapWind(u, mag, cap) ==
    IF mag > cap THEN << (u[1] * cap) \div mag, (u[2] * cap) \div mag >> ELSE u

\* getWindAt(px, py): the wind vector in hundredths of a pixel per second
getWindAt(t, px, py) ==
    LET u == SumWind(t.segments, t.opts, px * 10, py * 10, Ambient(t, px, py))
    IN  CapWind(u, hypot(u[1], u[2]), t.opts.maxPush * 100)

----------------------------------------------------------------------------
(* Inputs of the operations *)

Amounts == {3, 5 * MaxDepth, 150 * MaxDepth}

\* the amounts of the direct deposit calls: more than any bin can take
DepositAmounts == {5 * MaxDepth, 150 * MaxDepth}

RefundAmounts == {3, 5 * MaxDepth}

WindMags == {0, MaxPush}

GroundWinds == {-MaxPush, MaxPush}

\* the clamped wind of a direct crown deposit
WindXs == {0, MaxPush}

\* the clamped wind at a flake: still air
FlakeWinds == {0}

Rnds == {0, 99}

ResetXs == {14}

\* pointer positions (clientX, clientY) of the pointer events
PointerPoints == {<<0, 0>>, <<12, 0>>, <<48, 0>>, <<48, 36>>}

\* pointer velocities (vx, vy): 30 px/s, 200 px/s
PointerSpeeds == {<<30, 0>>, <<120, 160>>}

\* milliseconds between a pointer event and the frame or event before it
PointerGaps == {10, 130}

\* frame times dt of updateLayers, in milliseconds
TrailDts == {50, DtMs}

\* points at which the scene asks for the wind
QueryPoints == {<<6, 0>>, <<30, 20>>}

\* the options handed to setOptions at start-up
TrailOptions ==
    {[defaults EXCEPT !.trailLife = TrailLife, !.trailMaxSegments = TrailCap, !.decay = d] :
        d \in {0, defaults.decay}}

\* draws of Math.random() in shouldStick, in units of 1 / StickUnit: 0, just under
\* the floor 0.08, 0.5 and just under 1
StickDraws == {0, (8 * StickUnit) \div 100 - 1, StickUnit \div 2, StickUnit - 1}

TheLedger == Ledger(budget, groundBins, groundDepth)

TotalMass == SumSeq(roofBins) + SumSeq(Flat(crownBins)) + SumSeq(groundBins)

NoCall == [op |-> "none", idx |-> 0, layer |-> 0, amount |-> 0, granted |-> 0,
           before |-> 0, flake |-> 0, x |-> 0, y |-> 0, stick |-> FALSE, hit |-> "none"]

Called(op, idx, layer, amount, granted) ==
    [NoCall EXCEPT !.op = op, !.idx = idx, !.layer = layer, !.amount = amount,
                   !.granted = granted, !.before = budget]

----------------------------------------------------------------------------
(* The state after construction *)

\* no puffs, no cooldown, a seeded background band
ExtrasStart ==
    /\ gustCooldown = 0
    /\ puffs = <<>>
    /\ puffQueue = <<>>
    /\ sinceBurst = -1
    /\ farFlakes = seedFlakes(1)

Init ==
    /\ budget = BudgetMax
    /\ groundBins = Zeros(GroundBins)
    /\ groundDepth = 0
    /\ roofBins = Zeros(HouseBins)
    /\ roofDepth = 0
    /\ crownBins = [li \in 1..CrownLayers |-> Zeros(TreeBins)]
    /\ treeDepth = 0
    /\ world = 1
    /\ flakes = seedFlakes(1)
    /\ windMag = 0
    /\ gustBoost = 0
    /\ groundWind = 0
    /\ groundLoft = 0
    /\ trail = NewTrail(defaults)
    /\ now = 0
    /\ ExtrasStart
    /\ call = NoCall
    /\ calls = 0

\* an operation of the snow layer: the wind trail is left alone
Tick == calls < MaxCalls /\ calls' = calls + 1 /\ UNCHANGED <<trail, now, extras>>

----------------------------------------------------------------------------
(* Operations of the ledger *)

ConsumeBudgetCall(amount) ==
    /\ Tick
    /\ budget' = consumeBudget(budget, amount)
    /\ call' = Called("consumeBudget", 0, 0, amount, ConsumeUse(budget, amount))
    /\ UNCHANGED <<groundBins, groundDepth, roofBins, roofDepth, crownBins, treeDepth,
                   flakes, windMag, gustBoost, groundWind, groundLoft, world>>

RefundBudgetCall(amount) ==
    /\ Tick
    /\ budget' = refundBudget(budget, amount)
    /\ call' = Called("refundBudget", 0, 0, amount, 0)
    /\ UNCHANGED <<groundBins, groundDepth, roofBins, roofDepth, crownBins, treeDepth,
                   flakes, windMag, gustBoost, groundWind, groundLoft, world>>

\* the shared snow context takes the ledger L
SetLedger(L) ==
    /\ budget' = L.budget
    /\ groundBins' = L.groundBins
    /\ groundDepth' = L.groundDepth

\* addSnowToBins on the roof as handleCollision calls it, for any bin index
RoofDeposit(idx, amount, posX) ==
    /\ Tick
    /\ LET r == addSnowToBins(TheLedger, roofBins, idx, amount, 50, MaxDepth,
                              GroundDepthCap, posX, WorldWidth(world), groundWind)
       IN  SetLedger(r.L) /\ roofBins' = r.bins
    /\ call' = Called("addSnowToBins", idx, 0, amount, ConsumeUse(budget, amount))
    /\ UNCHANGED <<roofDepth, crownBins, treeDepth, flakes, windMag, gustBoost,
                   groundWind, groundLoft, world>>

\* addSnowToTreeLayers on crown layer li as handleCollision calls it
CrownDeposit(li, idx, amount, posX, windX) ==
    /\ Tick
    /\ LET r == addSnowToTreeLayers(TheLedger, crownBins, li, idx, amount,
                                    LayerDepthLimit(li, CrownLayers), posX, windX,
                                    WorldWidth(world), groundWind)
       IN  SetLedger(r.L) /\ crownBins' = r.rows
    /\ call' = Called("addSnowToTreeLayers", idx, li, amount, ConsumeUse(budget, amount))
    /\ UNCHANGED <<roofBins, roofDepth, treeDepth, flakes, windMag, gustBoost,
                   groundWind, groundLoft, world>>

----------------------------------------------------------------------------
(* update(dt) of the mid band, phase by phase *)

\* the wind sample of a tick: the speed mag and the ground wind gw
UpdateWind(mag, gw) ==
    /\ Tick
    /\ LET windDelta == mag - windMag
           \* gustBoost *= exp(-dt * 1.6)
           decayed == (gustBoost * 852) \div 1000
       IN  gustBoost' = IF windDelta > 70
                        THEN clamp(0, 100, decayed + (windDelta * 100) \div 260)
                        ELSE decayed
    /\ windMag' = mag
    /\ groundWind' = gw
    /\ call' = Called("updateWind", 0, 0, mag, 0)
    /\ UNCHANGED <<budget, groundBins, groundDepth, roofBins, roofDepth, crownBins,
                   treeDepth, flakes, groundLoft, world>>

\* the roof bin a flake at column x lands in
RoofIdx(x, windX) ==
    LET span == Roof.right - Roof.left
        rawIdx == ((x - Roof.left) * (HouseBins - 1)) \div span
    IN  clamp(0, HouseBins - 1, rawIdx + RoundDiv(windX * 2, MaxPush))

\* the crown bin of layer li a flake at column x lands in
CrownIdx(x, li, windX) ==
    LET span == CrownGeom(li).right - CrownGeom(li).left
        rawIdx == IF span = 0 THEN (TreeBins - 1) \div 2
                  ELSE ((x - CrownGeom(li).left) * (TreeBins - 1)) \div span
    IN  clamp(0, TreeBins - 1, rawIdx + RoundDiv(windX * 15, 10 * MaxPush))

\* slopeDir = t < 0.5 ? -1 : 1
SlopeDir(x, left, right) == IF 2 * (x - left) < right - left THEN -1 ELSE 1

\* handleCollision on the roof: the flake f is recycled; it deposits if it sticks
RoofHit(i, f, windX, stick, rx) ==
    /\ flakes' = [flakes EXCEPT ![i] = resetFlake(f, TRUE, rx)]
    /\ call' = [NoCall EXCEPT !.op = "flake", !.before = budget, !.flake = i, !.x = f.x, !.y = f.y, !.stick = stick, !.hit = "roof"]
    /\ IF stick
       THEN LET added == (f.radius * 12 * Scale
                          * AmountScale(windX, SlopeDir(f.x, Roof.left, Roof.right), 350, 200)) \div 10000
                r == addSnowToBins(TheLedger, roofBins, RoofIdx(f.x, windX), added, 50,
                                   MaxDepth, GroundDepthCap, f.x, WorldWidth(world), groundWind)
            IN  /\ SetLedger(r.L)
                /\ roofBins' = r.bins
                /\ roofDepth' = Min(MaxDepth, average(r.bins))
       ELSE UNCHANGED <<budget, groundBins, groundDepth, roofBins, roofDepth>>
    /\ UNCHANGED <<crownBins, treeDepth>>

\* handleCollision on crown layer li
CrownHit(i, f, li, windX, stick, rx) ==
    /\ flakes' = [flakes EXCEPT ![i] = resetFlake(f, TRUE, rx)]
    /\ call' = [NoCall EXCEPT !.op = "flake", !.before = budget, !.flake = i, !.x = f.x, !.y = f.y, !.stick = stick,
                              !.hit = "crown", !.layer = li]
    /\ IF stick
       THEN LET added == (f.radius * Scale
                          * AmountScale(windX, SlopeDir(f.x, CrownGeom(li).left, CrownGeom(li).right),
                                        300, 150)) \div 1000
                r == addSnowToTreeLayers(TheLedger, crownBins, li, CrownIdx(f.x, li, windX),
                                         added, LayerDepthLimit(li, CrownLayers), f.x,
                                         windX, WorldWidth(world), groundWind)
            IN  /\ SetLedger(r.L)
                /\ crownBins' = r.rows
                /\ treeDepth' = Min(MaxDepth, average(Flat(r.rows)))
       ELSE UNCHANGED <<budget, groundBins, groundDepth, crownBins, treeDepth>>
    /\ UNCHANGED <<roofBins, roofDepth>>

\* no collision: the flake is recycled below the bottom edge and wrapped at the sides
NoHit(i, f, stick, rx) ==
    /\ flakes' = [flakes EXCEPT ![i] =
                     Wrap(IF f.y > WorldHeight(world) THEN resetFlake(f, TRUE, rx) ELSE f,
                          WorldWidth(world))]
    /\ call' = [NoCall EXCEPT !.op = "flake", !.before = budget, !.flake = i, !.x = f.x, !.y = f.y, !.stick = stick]
    /\ UNCHANGED <<budget, groundBins, groundDepth, roofBins, roofDepth, crownBins, treeDepth>>

\* the flake i has moved to f
FlakeMoved(i, f, windX, stick, rx) ==
    IF InRoof(f.x, f.y) THEN RoofHit(i, f, windX, stick, rx)
    ELSE IF HitLayer(f.x, f.y, CrownLayers - 1) >= 0
    THEN CrownHit(i, f, HitLayer(f.x, f.y, CrownLayers - 1), windX, stick, rx)
    ELSE NoHit(i, f, stick, rx)

\* one flake of the flake loop: integration, handleCollision, recycling, wrap.
\* windX, windY: the clamped wind at the flake; stick: the draw of shouldStick;
\* rx: the random column of resetFlake.
FlakeStep(i, windX, windY, stick, rx) ==
    /\ Tick
    /\ FlakeMoved(i, Integrate(flakes[i], windX, windY), windX, stick, rx)
    /\ UNCHANGED <<windMag, gustBoost, groundWind, groundLoft, world>>

\* the erosion block of a tick with windMag > 50; rnd stands for the random draws of
\* the pass and k for the flake the launches of the pass pick
ErodeSnow(rnd, k) ==
    /\ Tick
    /\ windMag > 50
    /\ k \in 1..Len(flakes)
    /\ LET erosion == Erosion(windMag, gustBoost)
           roof == ErodeBins(roofBins, 0, budget, 0, erosion, 50, rnd)
           tree == ErodeRows(crownBins, 0, roof.budget, <<>>, erosion, rnd)
           groundAfter == ErodeGround(groundDepth, erosion)
           groundRemoved == groundDepth - groundAfter
           plan == LaunchPlan(windMag, gustBoost, rnd, roof.removed, tree.removed, groundRemoved,
                              groundBins, WorldWidth(world), WorldHeight(world))
           run == RunPlan(plan, 0, LoftCap(gustBoost), <<>>)
       IN  /\ roofBins' = roof.bins
           /\ roofDepth' = average(roof.bins)
           /\ crownBins' = tree.rows
           /\ treeDepth' = average(Flat(tree.rows))
           /\ groundDepth' = groundAfter
           /\ budget' = IF groundRemoved > 0 THEN refundBudget(tree.budget, groundRemoved)
                        ELSE tree.budget
           /\ flakes' = IF run.lofted > 0 THEN launch(flakes, k, run.last, rnd) ELSE flakes
           /\ call' = Called("erode", 0, 0, run.lofted, 0)
    /\ UNCHANGED <<groundBins, windMag, gustBoost, groundWind, groundLoft, world>>

\* the ground drift of a tick; the call records the flakes lofted as amount and the
\* attempts of the loft loop as granted
GroundDrift(rnd, k) ==
    /\ Tick
    /\ k \in 1..Len(flakes)
    /\ LET r == updateGroundDrift(groundBins, groundDepth, groundLoft, flakes, groundWind,
                                  gustBoost, rnd, k, WorldWidth(world), WorldHeight(world))
       IN  /\ groundBins' = r.bins
           /\ groundDepth' = r.groundDepth
           /\ groundLoft' = r.groundLoft
           /\ flakes' = r.flakes
           /\ call' = Called("drift", 0, 0, r.lofted, r.attempts)
    /\ UNCHANGED <<budget, roofBins, roofDepth, crownBins, treeDepth, windMag,
                   gustBoost, groundWind, world>>

----------------------------------------------------------------------------
(* resizeLayers with a changed world size: the village and the trees are rebuilt,  *)
(* the mid band reseeds its flakes and clears the ground.  updateViewState takes   *)
(* the larger of the world and the viewport, so a world that changes has grown.    *)

\* a resize after which the mid band keeps its ground bins, as seedFlakes alone would
ResizeKeepingGround(w) ==
    /\ Tick
    /\ w > world
    /\ world' = w
    /\ roofBins' = Zeros(HouseBins)
    /\ roofDepth' = 0
    /\ crownBins' = [li \in 1..CrownLayers |-> Zeros(TreeBins)]
    /\ treeDepth' = 0
    /\ flakes' = seedFlakes(w)
    /\ call' = Called("resize", 0, 0, 0, 0)
    /\ UNCHANGED <<budget, groundBins, groundDepth, windMag, gustBoost, groundWind, groundLoft>>

Resize(w) ==
    /\ Tick
    /\ w > world
    /\ world' = w
    /\ roofBins' = Zeros(HouseBins)
    /\ roofDepth' = 0
    /\ crownBins' = [li \in 1..CrownLayers |-> Zeros(TreeBins)]
    /\ treeDepth' = 0
    /\ flakes' = seedFlakes(w)
    /\ groundBins' = Zeros(GroundBins)
    /\ groundDepth' = 0
    /\ call' = Called("resize", 0, 0, 0, 0)
    /\ UNCHANGED <<budget, windMag, gustBoost, groundWind, groundLoft>>

----------------------------------------------------------------------------
(* Specifications *)

DoConsume == \E a \in Amounts : ConsumeBudgetCall(a)

DoRefund == \E a \in RefundAmounts : RefundBudgetCall(a)

DoRoofDeposit ==
    \E idx \in {-1, 1, HouseBins}, a \in DepositAmounts : RoofDeposit(idx, a, Roof.apexX)

DoCrownDeposit ==
    \E li \in {0, CrownLayers - 1}, a \in DepositAmounts, wx \in WindXs :
        CrownDeposit(li, 0, a, CrownGeom(li).apexX, wx)

DoUpdateWind == \E mag \in WindMags, gw \in GroundWinds : UpdateWind(mag, gw)

DoFlakeStep ==
    \E i \in 1..Len(flakes), wx \in FlakeWinds, stick \in BOOLEAN, rx \in ResetXs :
        FlakeStep(i, wx, 0, stick, rx)

DoErodeSnow == \E rnd \in Rnds, k \in {1, Len(flakes)} : ErodeSnow(rnd, k)

DoGroundDrift == \E rnd \in Rnds, k \in {1, Len(flakes)} : GroundDrift(rnd, k)

DoResize == \E w \in Worlds : Resize(w)

Next ==
    \/ DoConsume
    \/ DoRefund
    \/ DoRoofDeposit
    \/ DoCrownDeposit
    \/ DoUpdateWind
    \/ DoFlakeStep
    \/ DoErodeSnow
    \/ DoGroundDrift
    \/ DoResize

Spec == Init /\ [][Next]_vars

\* deposits only: the flake loop and the two deposit routines, no erosion, drift or resize
NextDeposits ==
    \/ DoRoofDeposit
    \/ DoCrownDeposit
    \/ DoFlakeStep

SpecDeposits == Init /\ [][NextDeposits]_vars

\* the variables of the snow layer
scene == <<budget, groundBins, groundDepth, roofBins, roofDepth, crownBins, treeDepth,
           flakes, windMag, gustBoost, groundWind, groundLoft, world, extras>>

\* the scene after construction, before any operation
SceneStart ==
    /\ budget = BudgetMax
    /\ groundBins = Zeros(GroundBins)
    /\ groundDepth = 0
    /\ roofBins = Zeros(HouseBins)
    /\ roofDepth = 0
    /\ crownBins = [li \in 1..CrownLayers |-> Zeros(TreeBins)]
    /\ treeDepth = 0
    /\ world = 1
    /\ flakes = seedFlakes(1)
    /\ windMag = 0
    /\ gustBoost = 0
    /\ groundWind = 0
    /\ groundLoft = 0
    /\ ExtrasStart
    /\ call = NoCall
    /\ calls = 0

\* the wind trail after construction and the setOptions of start-up
InitTrail ==
    /\ SceneStart
    /\ trail \in {NewTrail(o) : o \in TrailOptions}
    /\ now = 0

\* an operation of the wind trail: the snow layer is left alone
TrailTick == calls < MaxTrailCalls /\ calls' = calls + 1 /\ UNCHANGED scene

\* a pointermove event at pt with velocity v, gap milliseconds after the last frame or event
PointerMove(pt, v, gap, rnd) ==
    /\ TrailTick
    /\ now' = now + gap
    /\ trail' = onPointerMove(trail, pt[1], pt[2], v[1], v[2], now + gap, rnd)
    /\ call' = [NoCall EXCEPT !.op = "onPointerMove", !.x = pt[1], !.y = pt[2], !.amount = gap]

\* mouseWind.update(dt) of a frame
TrailUpdate(dt) ==
    /\ TrailTick
    /\ now' = now + dt
    /\ trail' = update(trail, dt)
    /\ call' = [NoCall EXCEPT !.op = "update", !.amount = dt]

\* a query that ages the segments as a frame does
TrailQueryAging(pt) ==
    /\ TrailTick
    /\ now' = now
    /\ trail' = update(trail, DtMs)
    /\ call' = [NoCall EXCEPT !.op = "getWindAt", !.idx = pt[1], !.layer = pt[2],
                              !.x = getWindAt(trail, pt[1], pt[2])[1],
                              !.y = getWindAt(trail, pt[1], pt[2])[2]]

\* mouseWind.getWindAt(px, py): x and y record the vector returned, hit whether the
\* call before was the same query
TrailQuery(pt) ==
    /\ TrailTick
    /\ UNCHANGED <<trail, now>>
    /\ call' = [NoCall EXCEPT !.op = "getWindAt", !.idx = pt[1], !.layer = pt[2],
                              !.x = getWindAt(trail, pt[1], pt[2])[1],
                              !.y = getWindAt(trail, pt[1], pt[2])[2],
                              !.hit = IF call.op = "getWindAt" /\ call.idx = pt[1] /\ call.layer = pt[2]
                                      THEN "again" ELSE "none"]

DoPointerMove ==
    \E pt \in PointerPoints, v \in PointerSpeeds, gap \in PointerGaps : PointerMove(pt, v, gap, 50)

DoTrailUpdate == \E dt \in TrailDts : TrailUpdate(dt)

DoTrailQuery == \E pt \in QueryPoints : TrailQuery(pt)

NextTrail ==
    \/ DoPointerMove
    \/ DoTrailUpdate
    \/ DoTrailQuery

SpecTrail == InitTrail /\ [][NextTrail]_vars

\* a straight horizontal sweep of the pointer: 200 px/s for 1000 ms, a pointer event
\* every 12 px (every 60 ms), a frame every 20 ms
Sweep == [speed |-> 200, length |-> 1000, gap |-> 60, frame |-> 20, step |-> 12]

\* where a sweep starts and which way it goes
SweepStarts == {<<0, 0>>, <<200, 40>>}

SweepDirs == {-1, 1}

\* the trail of the sweep: the options of the source, whose trailSpacing is 12 px
InitSweep ==
    /\ SceneStart
    /\ trail = NewTrail(defaults)
    /\ now = 0

\* the pointer event at pt with velocity (vx, 0) that is due at `now`
SweepMove(pt, vx) ==
    /\ trail' = onPointerMove(trail, pt[1], pt[2], vx, 0, now, 50)
    /\ now' = now
    /\ call' = [NoCall EXCEPT !.op = "onPointerMove", !.x = pt[1], !.y = pt[2], !.amount = Sweep.gap]
    /\ calls' = calls + 1
    /\ UNCHANGED scene

\* the pointer event due at `now`: the first one at start, the later ones one step on
\* in the direction dir of the sweep
SweepEvent(start, dir) ==
    /\ now % Sweep.gap = 0
    /\ now < Sweep.length
    /\ IF trail.lastPos = <<>> THEN SweepMove(start, dir * Sweep.speed)
       ELSE /\ trail.lastMoveTime < now
            /\ trail.lastDir \in {<<>>, <<dir * 1000, 0>>}
            /\ SweepMove(<<trail.lastPos[1] + dir * Sweep.step, trail.lastPos[2]>>, dir * Sweep.speed)

\* the frame after the pointer event due at `now`, if any, has been delivered
SweepFrame ==
    /\ now < Sweep.length
    /\ trail.lastPos # <<>>
    /\ now % Sweep.gap = 0 => trail.lastMoveTime = now
    /\ trail' = update(trail, Sweep.frame)
    /\ now' = now + Sweep.frame
    /\ call' = [NoCall EXCEPT !.op = "update", !.amount = Sweep.frame]
    /\ calls' = calls + 1
    /\ UNCHANGED scene

DoSweepEvent == \E start \in SweepStarts, dir \in SweepDirs : SweepEvent(start, dir)

NextSweep ==
    \/ DoSweepEvent
    \/ SweepFrame

SpecSweep == InitSweep /\ [][NextSweep]_vars

\* shouldStick under every wind speed mouseWind.getCurrentSpeed() can report
InitStick ==
    /\ budget = BudgetMax
    /\ groundBins = Zeros(GroundBins)
    /\ groundDepth = 0
    /\ roofBins = Zeros(HouseBins)
    /\ roofDepth = 0
    /\ crownBins = [li \in 1..CrownLayers |-> Zeros(TreeBins)]
    /\ treeDepth = 0
    /\ world = 1
    /\ flakes = seedFlakes(1)
    /\ windMag \in 0..MaxPush
    /\ gustBoost = 0
    /\ groundWind = 0
    /\ groundLoft = 0
    /\ trail = NewTrail(defaults)
    /\ now = 0
    /\ ExtrasStart
    /\ call = NoCall
    /\ calls = 0

\* a call of shouldStick(windMag): amount records the probability, stick the answer
ShouldStickCall(rnd) ==
    /\ Tick
    /\ call' = [NoCall EXCEPT !.op = "shouldStick", !.amount = StickProb(windMag),
                              !.stick = shouldStick(windMag, rnd)]
    /\ UNCHANGED <<budget, groundBins, groundDepth, roofBins, roofDepth, crownBins, treeDepth,
                   flakes, windMag, gustBoost, groundWind, groundLoft, world>>

NextStick == \E rnd \in StickDraws : ShouldStickCall(rnd)

SpecStick == InitStick /\ [][NextStick]_vars

----------------------------------------------------------------------------
(* Whole ticks over a scene on which snow has settled *)

\* the numbers of flakes that have stuck to the roof before the scene is observed
SettledFlakes == {4, 6, 9}

\* the ledger and the roof after n flakes of radius 3 have stuck at the ridge in still
\* air: handleCollision deposits each with addSnowToBins, whose overflow feeds the ground
RECURSIVE RoofSnowed(_, _)
RoofSnowed(st, n) ==
    IF n = 0 THEN st
    ELSE LET r == addSnowToBins(st.L, st.bins, RoofIdx(Roof.apexX, 0),
                                (3 * 12 * Scale * AmountScale(0, 1, 350, 200)) \div 10000, 50,
                                MaxDepth, GroundDepthCap, Roof.apexX, WorldWidth(1), 0)
         IN  RoofSnowed([L |-> r.L, bins |-> r.bins], n - 1)

\* the scene while the pointer's last speed stays at maxPush: the gust of its onset has
\* decayed, the trail has not reached the ground samples, snow lies on roof and ground
InitSteady ==
    /\ \E n \in SettledFlakes :
          LET st == RoofSnowed([L |-> Ledger(BudgetMax, Zeros(GroundBins), 0),
                                bins |-> Zeros(HouseBins)], n)
          IN  /\ budget = st.L.budget
              /\ groundBins = st.L.groundBins
              /\ groundDepth = st.L.groundDepth
              /\ roofBins = st.bins
              /\ roofDepth = Min(MaxDepth, average(st.bins))
    /\ crownBins = [li \in 1..CrownLayers |-> Zeros(TreeBins)]
    /\ treeDepth = 0
    /\ world = 1
    /\ flakes = seedFlakes(1)
    /\ windMag = MaxPush
    /\ gustBoost = 0
    /\ groundWind = 0
    /\ groundLoft = 0
    /\ trail = NewTrail(defaults)
    /\ now = 0
    /\ ExtrasStart
    /\ call = NoCall
    /\ calls = 0

\* the end of update(dt) of the mid band: the erosion block when windMag > 50, then
\* updateGroundDrift
TickEnd(rnd, k) ==
    /\ Tick
    /\ k \in 1..Len(flakes)
    /\ LET windy == windMag > 50
           erosion == Erosion(windMag, gustBoost)
           roof == ErodeBins(roofBins, 0, budget, 0, erosion, 50, rnd)
           tree == ErodeRows(crownBins, 0, roof.budget, <<>>, erosion, rnd)
           groundAfter == IF windy THEN ErodeGround(groundDepth, erosion) ELSE groundDepth
           groundRemoved == groundDepth - groundAfter
           plan == LaunchPlan(windMag, gustBoost, rnd, roof.removed, tree.removed, groundRemoved,
                              groundBins, WorldWidth(world), WorldHeight(world))
           run == RunPlan(plan, 0, LoftCap(gustBoost), <<>>)
           blown == IF windy /\ run.lofted > 0 THEN launch(flakes, k, run.last, rnd) ELSE flakes
           r == updateGroundDrift(groundBins, groundAfter, groundLoft, blown, groundWind,
                                  gustBoost, rnd, k, WorldWidth(world), WorldHeight(world))
       IN  /\ roofBins' = IF windy THEN roof.bins ELSE roofBins
           /\ roofDepth' = IF windy THEN average(roof.bins) ELSE roofDepth
           /\ crownBins' = IF windy THEN tree.rows ELSE crownBins
           /\ treeDepth' = IF windy THEN average(Flat(tree.rows)) ELSE treeDepth
           /\ budget' = IF ~windy THEN budget
                        ELSE IF groundRemoved > 0 THEN refundBudget(tree.budget, groundRemoved)
                        ELSE tree.budget
           /\ groundBins' = r.bins
           /\ groundDepth' = r.groundDepth
           /\ groundLoft' = r.groundLoft
           /\ flakes' = r.flakes
           /\ call' = Called("tick", 0, 0, groundRemoved, 0)
    /\ UNCHANGED <<windMag, gustBoost, groundWind, world>>

\* the ground winds sampleGroundWind reports: none while the trail is away from the
\* ground, a full one while it sweeps along it
SteadyGroundWinds == {0, MaxPush}

DoSteadyWind == \E mag \in WindMags, gw \in SteadyGroundWinds : UpdateWind(mag, gw)

DoTickEnd == \E rnd \in Rnds, k \in {1, Len(flakes)} : TickEnd(rnd, k)

NextSteady ==
    \/ DoSteadyWind
    \/ DoFlakeStep
    \/ DoTickEnd

SpecSteady == InitSteady /\ [][NextSteady]_vars

----------------------------------------------------------------------------
(* The roof loop of the erosion block alone, at a given erosion rate *)

\* a roof whose bins hold `held` depth units each, eroded at `rate` depth units per
\* bin and tick for `ticks` ticks
ErodeCase == [held |-> 5, rate |-> 1, ticks |-> 5]

\* the draws of Math.random() of a bin, in percent
ErodeDraws == {0, 50, 99}

InitErode ==
    /\ budget = BudgetMax - HouseBins * ErodeCase.held * Scale
    /\ groundBins = Zeros(GroundBins)
    /\ groundDepth = 0
    /\ roofBins = [i \in 1..HouseBins |-> ErodeCase.held * Scale]
    /\ roofDepth = ErodeCase.held * Scale
    /\ crownBins = [li \in 1..CrownLayers |-> Zeros(TreeBins)]
    /\ treeDepth = 0
    /\ world = 1
    /\ flakes = seedFlakes(1)
    /\ windMag = MaxPush
    /\ gustBoost = 0
    /\ groundWind = 0
    /\ groundLoft = 0
    /\ trail = NewTrail(defaults)
    /\ now = 0
    /\ ExtrasStart
    /\ call = NoCall
    /\ calls = 0

\* what the bins lose to the draws
RECURSIVE ErodedOff(_, _, _, _)
ErodedOff(bins, draws, erosion, i) ==
    IF i > Len(bins) THEN 0
    ELSE bins[i] - ErodeBin(bins[i], erosion, 50, draws[i]) + ErodedOff(bins, draws, erosion, i + 1)

\* the loop over the bins of one house with the erosion `erosion` (in thousandths of a
\* model unit) and one draw per bin; nothing is deposited
ErodeRoof(erosion, draws) ==
    /\ calls < ErodeCase.ticks
    /\ calls' = calls + 1
    /\ roofBins' = [i \in 1..HouseBins |-> ErodeBin(roofBins[i], erosion, 50, draws[i])]
    /\ roofDepth' = average(roofBins')
    /\ budget' = refundBudget(budget, ErodedOff(roofBins, draws, erosion, 1))
    /\ call' = Called("erodeRoof", 0, 0, erosion, 0)
    /\ UNCHANGED <<groundBins, groundDepth, crownBins, treeDepth, flakes, windMag, gustBoost,
                   groundWind, groundLoft, world, trail, now, extras>>

NextErode ==
    \E draws \in [1..HouseBins -> ErodeDraws] : ErodeRoof(ErodeCase.rate * Scale * 1000, draws)

SpecErode == InitErode /\ [][NextErode]_vars

----------------------------------------------------------------------------
(* The launches of a tick in a village of several houses *)

\* the houses of the village; their roofs carry the snow of the roof of the model
Houses == 7

\* a plan in which the two requests of the roof are issued once per house
RECURSIVE VillagePlan(_, _)
VillagePlan(plan, n) ==
    IF n <= 1 THEN plan ELSE SubSeq(plan, 1, 2) \o VillagePlan(plan, n - 1)

\* the erosion block over a village of n houses: every house issues its launch requests
\* to the one counter `lofted` of the tick; amount records the launches, idx the houses
ErodeVillage(n, rnd, k) ==
    /\ Tick
    /\ windMag > 50
    /\ k \in 1..Len(flakes)
    /\ LET erosion == Erosion(windMag, gustBoost)
           roof == ErodeBins(roofBins, 0, budget, 0, erosion, 50, rnd)
           tree == ErodeRows(crownBins, 0, roof.budget, <<>>, erosion, rnd)
           groundAfter == ErodeGround(groundDepth, erosion)
           groundRemoved == groundDepth - groundAfter
           plan == LaunchPlan(windMag, gustBoost, rnd, roof.removed, tree.removed, groundRemoved,
                              groundBins, WorldWidth(world), WorldHeight(world))
           run == RunPlan(VillagePlan(plan, n), 0, LoftCap(gustBoost), <<>>)
       IN  /\ roofBins' = roof.bins
           /\ roofDepth' = average(roof.bins)
           /\ crownBins' = tree.rows
           /\ treeDepth' = average(Flat(tree.rows))
           /\ groundDepth' = groundAfter
           /\ budget' = IF groundRemoved > 0 THEN refundBudget(tree.budget, groundRemoved)
                        ELSE tree.budget
           /\ flakes' = IF run.lofted > 0 THEN launch(flakes, k, run.last, rnd) ELSE flakes
           /\ call' = Called("erodeVillage", n, 0, run.lofted, 0)
    /\ UNCHANGED <<groundBins, windMag, gustBoost, groundWind, groundLoft, world>>

DoErodeVillage == \E n \in {1, Houses}, rnd \in Rnds, k \in {1, Len(flakes)} : ErodeVillage(n, rnd, k)

NextLoft ==
    \/ DoSteadyWind
    \/ DoErodeVillage
    \/ DoGroundDrift

SpecLoft == InitSteady /\ [][NextLoft]_vars

----------------------------------------------------------------------------
(* Gust bursts and puffs of the mid band *)

\* ticks of the gust specification: more than a cooldown of 0.6 s at dt = 0.1 s
MaxGustCalls == 7

\* the flakes that have stuck to the roof of the calm scene
CalmFlakes == 6

\* a calm scene on which snow has settled on roof and ground
InitGust ==
    /\ LET st == RoofSnowed([L |-> Ledger(BudgetMax, Zeros(GroundBins), 0),
                             bins |-> Zeros(HouseBins)], CalmFlakes)
       IN  /\ budget = st.L.budget
           /\ groundBins = st.L.groundBins
           /\ groundDepth = st.L.groundDepth
           /\ roofBins = st.bins
           /\ roofDepth = Min(MaxDepth, average(st.bins))
    /\ crownBins = [li \in 1..CrownLayers |-> Zeros(TreeBins)]
    /\ treeDepth = 0
    /\ world = 1
    /\ flakes = seedFlakes(1)
    /\ windMag = 0
    /\ gustBoost = 0
    /\ groundWind = 0
    /\ groundLoft = 0
    /\ trail = NewTrail(defaults)
    /\ now = 0
    /\ ExtrasStart
    /\ call = NoCall
    /\ calls = 0

\* the frame times of a tick, in milliseconds: dt = min(elapsed, 0.1)
GustDts == {50, DtMs}

\* spawnSnowPuff(x, y, strength): 6 + floor(strength * 8) puffs of age 0 are pushed and
\* the list is cut to its 600 newest.  strength is in permille, rnd is the draw of the
\* life (0.5 + Math.random() * 0.7 s); position, velocity, size and alpha of a puff are
\* read by the drawing only and are left out
spawnSnowPuff(ps, strength, rnd) ==
    LET count == 6 + (strength * 8) \div 1000
        pushed == ps \o [i \in 1..count |-> [age |-> 0, life |-> 500 + 7 * rnd]]
    IN  IF Len(pushed) > 600 THEN SubSeq(pushed, Len(pushed) - 599, Len(pushed)) ELSE pushed

RECURSIVE SpawnTimes(_, _, _, _)
SpawnTimes(ps, n, strength, rnd) ==
    IF n <= 0 THEN ps ELSE SpawnTimes(spawnSnowPuff(ps, strength, rnd), n - 1, strength, rnd)

\* spawnGroundPuffs(count, strength): nothing without ground snow; a puff per draw of a
\* bin whose drift is at least 1 high.  rnd is the draw of the bin
spawnGroundPuffs(ps, count, strength, gbins, gd, rnd) ==
    LET idx == (rnd * Len(gbins)) \div 100
        h == clamp(0, SNOW_DEFAULT_MAX_DEPTH * 32, (At(gbins, idx) * 12) \div Scale)
    IN  IF Len(gbins) = 0 \/ gd * 10 < 2 * Scale THEN ps
        ELSE IF h < 10 THEN ps
        ELSE SpawnTimes(ps, count, strength, rnd)

\* the drain of snowContext.puffQueue: at most 8 events are shifted and spawned, then
\* the queue is cut to its 20 newest
RECURSIVE Drain(_, _, _, _)
Drain(queue, ps, i, rnd) ==
    IF i < 8 /\ queue # <<>>
    THEN Drain(Tail(queue), spawnSnowPuff(ps, Head(queue).strength, rnd), i + 1, rnd)
    ELSE [queue |-> IF Len(queue) > 20 THEN SubSeq(queue, Len(queue) - 19, Len(queue)) ELSE queue,
          puffs |-> ps]

\* a tick of the gust specification
GustTick == calls < MaxGustCalls /\ calls' = calls + 1 /\ UNCHANGED <<trail, now, farFlakes>>

\* the head of update(dt) with a burst on every gust, whatever the cooldown
WindPhaseEager(mag, gw, dt, rnd) ==
    /\ GustTick
    /\ LET windDelta == mag - windMag
           decayed == (gustBoost * ExpNeg((dt * 16) \div 10)) \div 1000
           boosted == IF windDelta > 70
                      THEN clamp(0, 100, decayed + (windDelta * 100) \div 260) ELSE decayed
           burst == windDelta > 70
           blown == IF burst
                    THEN spawnGroundPuffs(puffs, 2 + windDelta \div 60, 600 + boosted * 10,
                                          groundBins, groundDepth, rnd)
                    ELSE puffs
           drained == Drain(puffQueue, blown, 0, rnd)
       IN  /\ windMag' = mag
           /\ gustBoost' = boosted
           /\ gustCooldown' = Max(0, gustCooldown - dt)
           /\ sinceBurst' = IF burst THEN 0 ELSE IF sinceBurst < 0 THEN -1 ELSE sinceBurst + dt
           /\ groundWind' = gw
           /\ puffs' = drained.puffs
           /\ puffQueue' = drained.queue
           /\ call' = [NoCall EXCEPT !.op = "wind", !.amount = mag, !.granted = dt,
                                     !.before = budget, !.idx = sinceBurst,
                                     !.hit = IF burst THEN "burst" ELSE "none"]
    /\ UNCHANGED <<budget, groundBins, groundDepth, roofBins, roofDepth, crownBins,
                   treeDepth, flakes, groundLoft, world>>

\* the head of update(dt) of the mid band: the wind sample, the gust boost, the
\* cooldown-gated burst of ground puffs, the ground wind and the drain of the puff
\* queue.  The call records the speed as amount, dt as granted, the time since the
\* burst before as idx and whether the tick made a burst as hit
WindPhase(mag, gw, dt, rnd) ==
    /\ GustTick
    /\ LET windDelta == mag - windMag
           decayed == (gustBoost * ExpNeg((dt * 16) \div 10)) \div 1000
           cooled == Max(0, gustCooldown - dt)
           boosted == IF windDelta > 70
                      THEN clamp(0, 100, decayed + (windDelta * 100) \div 260) ELSE decayed
           burst == windDelta > 70 /\ cooled <= 0
           blown == IF burst
                    THEN spawnGroundPuffs(puffs, 2 + windDelta \div 60, 600 + boosted * 10,
                                          groundBins, groundDepth, rnd)
                    ELSE puffs
           drained == Drain(puffQueue, blown, 0, rnd)
       IN  /\ windMag' = mag
           /\ gustBoost' = boosted
           /\ gustCooldown' = IF burst THEN 600 ELSE cooled
           /\ sinceBurst' = IF burst THEN 0 ELSE IF sinceBurst < 0 THEN -1 ELSE sinceBurst + dt
           /\ groundWind' = gw
           /\ puffs' = drained.puffs
           /\ puffQueue' = drained.queue
           /\ call' = [NoCall EXCEPT !.op = "wind", !.amount = mag, !.granted = dt,
                                     !.before = budget, !.idx = sinceBurst,
                                     !.hit = IF burst THEN "burst" ELSE "none"]
    /\ UNCHANGED <<budget, groundBins, groundDepth, roofBins, roofDepth, crownBins,
                   treeDepth, flakes, groundLoft, world>>

\* updatePuffs in which a puff that dies settles on the ground
PuffsPhaseSettling(dt) ==
    /\ GustTick
    /\ puffs # <<>>
    /\ puffs' = SelectSeq([i \in 1..Len(puffs) |-> [puffs[i] EXCEPT !.age = @ + dt]],
                          LAMBDA q : q.age < q.life)
    /\ groundDepth' = groundDepth + (Len(puffs) - Len(puffs'))
    /\ call' = [NoCall EXCEPT !.op = "puffs", !.granted = dt, !.before = budget]
    /\ UNCHANGED <<budget, groundBins, roofBins, roofDepth, crownBins, treeDepth,
                   flakes, windMag, gustBoost, groundWind, groundLoft, world,
                   gustCooldown, puffQueue, sinceBurst>>

\* updatePuffs(dt), the tail of update(dt): every puff ages by dt and is spliced out
\* when age >= life
PuffsPhase(dt) ==
    /\ GustTick
    /\ puffs # <<>>
    /\ puffs' = SelectSeq([i \in 1..Len(puffs) |-> [puffs[i] EXCEPT !.age = @ + dt]],
                          LAMBDA q : q.age < q.life)
    /\ call' = [NoCall EXCEPT !.op = "puffs", !.granted = dt, !.before = budget]
    /\ UNCHANGED <<budget, groundBins, groundDepth, roofBins, roofDepth, crownBins, treeDepth,
                   flakes, windMag, gustBoost, groundWind, groundLoft, world,
                   gustCooldown, puffQueue, sinceBurst>>

\* a diverted present lands: the sleigh layer pushes a puff of strength 1 on the queue
\* and cuts the queue to its 40 newest
QueuePuff(x, y) ==
    /\ GustTick
    /\ LET pushed == Append(puffQueue, [x |-> x, y |-> y, strength |-> 1000])
       IN  puffQueue' = IF Len(pushed) > 40 THEN SubSeq(pushed, Len(pushed) - 39, Len(pushed))
                        ELSE pushed
    /\ call' = [NoCall EXCEPT !.op = "queuePuff", !.x = x, !.y = y, !.before = budget]
    /\ UNCHANGED <<budget, groundBins, groundDepth, roofBins, roofDepth, crownBins, treeDepth,
                   flakes, windMag, gustBoost, groundWind, groundLoft, world,
                   gustCooldown, puffs, sinceBurst>>

DoWindPhase == \E mag \in WindMags, dt \in GustDts, rnd \in Rnds : WindPhase(mag, 0, dt, rnd)

DoPuffsPhase == \E dt \in GustDts : PuffsPhase(dt)

DoQueuePuff == QueuePuff(Roof.apexX, Roof.yBase)

NextGust ==
    \/ DoWindPhase
    \/ DoPuffsPhase
    \/ DoQueuePuff

SpecGust == InitGust /\ [][NextGust]_vars

----------------------------------------------------------------------------
(* addToGround called by itself *)

\* the amounts offered to the ground, in model units, and the columns posX (-1: undefined)
GroundAmounts == {5 * Scale, 30 * Scale, 60 * Scale}

GroundColumns == {-1, 4, 50}

\* addToGround(amount, depthCap, posX): the call records the amount offered as amount
\* and the value returned as granted; the budget is left to the caller
AddToGroundCall(amount, posX) ==
    /\ Tick
    /\ LET g == addToGround(TheLedger, amount, GroundDepthCap, posX, WorldWidth(world), groundWind)
       IN  /\ groundBins' = g.L.groundBins
           /\ groundDepth' = g.L.groundDepth
           /\ call' = Called("addToGround", 0, 0, amount, g.ret)
    /\ UNCHANGED <<budget, roofBins, roofDepth, crownBins, treeDepth, flakes, windMag,
                   gustBoost, groundWind, groundLoft, world>>

NextGround == \E amount \in GroundAmounts, posX \in GroundColumns : AddToGroundCall(amount, posX)

SpecGround == Init /\ [][NextGround]_vars

----------------------------------------------------------------------------
(* Deposits, resizes and regenerations *)

\* the reroll button: createLayers(viewportWidth, viewportHeight) builds a new village,
\* new trees and new snow bands in a world of the size w of the viewport; the
\* constructor of the mid band refills the budget, its seedFlakes keeps the ground bins
\* of snowContext as their length is right, and nobody touches groundDepth.  The
\* resizeLayers that follows finds the world unchanged and returns
Regenerate(w) ==
    /\ calls < MaxCalls
    /\ calls' = calls + 1
    /\ world' = w
    /\ budget' = BudgetMax
    /\ roofBins' = Zeros(HouseBins)
    /\ roofDepth' = 0
    /\ crownBins' = [li \in 1..CrownLayers |-> Zeros(TreeBins)]
    /\ treeDepth' = 0
    /\ flakes' = seedFlakes(w)
    /\ farFlakes' = seedFlakes(w)
    /\ windMag' = 0
    /\ gustBoost' = 0
    /\ groundWind' = 0
    /\ groundLoft' = 0
    /\ gustCooldown' = 0
    /\ puffs' = <<>>
    /\ sinceBurst' = -1
    /\ call' = Called("regenerate", 0, 0, 0, 0)
    /\ UNCHANGED <<groundBins, groundDepth, puffQueue, trail, now>>

DoRegenerate == \E w \in Worlds : Regenerate(w)

NextLifecycle ==
    \/ DoRoofDeposit
    \/ DoCrownDeposit
    \/ DoFlakeStep
    \/ DoResize
    \/ DoRegenerate

SpecLifecycle == Init /\ [][NextLifecycle]_vars

----------------------------------------------------------------------------
(* The ground drift under winds of either direction *)

\* the ground winds sampleGroundWind reports: none, a breeze and a full wind, both ways
DriftWinds == {-MaxPush, -40, 0, 40, MaxPush}

DoDriftWind == \E mag \in WindMags, gw \in DriftWinds : UpdateWind(mag, gw)

NextDrift ==
    \/ DoDriftWind
    \/ DoGroundDrift

SpecDrift == InitSteady /\ [][NextDrift]_vars

----------------------------------------------------------------------------
(* The background band next to the mid band *)

\* an operation of the background band
FarTick ==
    /\ calls < MaxCalls
    /\ calls' = calls + 1
    /\ UNCHANGED <<trail, now, gustCooldown, puffs, puffQueue, sinceBurst>>

\* the winds (x, y) at a flake of the background band
FarWinds == {<<0, 0>>, <<MaxPush, 0>>, <<0, MaxPush>>}

\* a flake loop that hands the flake to the roof deposit of handleCollision
FarFlakeStepColliding(i, windX, windY, rx) ==
    /\ FarTick
    /\ LET f == Integrate(farFlakes[i], windX, windY)
           r == addSnowToBins(TheLedger, roofBins, RoofIdx(f.x, windX),
                              (f.radius * 12 * Scale) \div 10, 50, MaxDepth, GroundDepthCap,
                              f.x, WorldWidth(world), groundWind)
       IN  /\ IF InRoof(f.x, f.y)
              THEN /\ SetLedger(r.L)
                   /\ roofBins' = r.bins
                   /\ roofDepth' = Min(MaxDepth, average(r.bins))
                   /\ farFlakes' = [farFlakes EXCEPT ![i] = resetFlake(f, TRUE, rx)]
              ELSE /\ farFlakes' = [farFlakes EXCEPT ![i] = f]
                   /\ UNCHANGED <<budget, groundBins, groundDepth, roofBins, roofDepth>>
           /\ call' = [NoCall EXCEPT !.op = "farUpdate", !.before = budget, !.flake = i,
                                     !.x = f.x, !.y = f.y]
    /\ UNCHANGED <<crownBins, treeDepth, flakes, windMag, gustBoost, groundWind, groundLoft, world>>

\* one flake of the flake loop of update(dt) of the background band: the integration,
\* no handleCollision as the mode is not "mid", the recycling below the bottom edge and
\* the wrap at the sides.  Of the rest of update, the gust boost is a field of the band
\* that only the mid band's erosion reads, and the erosion block, the ground wind, the
\* puffs and updateGroundDrift are for the mid band only.  x and y record where the
\* flake was after the integration
FarFlakeStep(i, windX, windY, rx) ==
    /\ FarTick
    /\ LET f == Integrate(farFlakes[i], windX, windY)
       IN  /\ farFlakes' = [farFlakes EXCEPT ![i] =
                               Wrap(IF f.y > WorldHeight(world) THEN resetFlake(f, TRUE, rx) ELSE f,
                                    WorldWidth(world))]
           /\ call' = [NoCall EXCEPT !.op = "farUpdate", !.before = budget, !.flake = i,
                                     !.x = f.x, !.y = f.y]
    /\ UNCHANGED <<budget, groundBins, groundDepth, roofBins, roofDepth, crownBins, treeDepth,
                   flakes, windMag, gustBoost, groundWind, groundLoft, world>>

\* resize(w, h) of the background band in the loop of resizeLayers: handleResize
\* reseeds the flakes and, the mode not being "mid", leaves the ground alone
FarResize(w) ==
    /\ FarTick
    /\ farFlakes' = seedFlakes(w)
    /\ call' = [NoCall EXCEPT !.op = "farResize", !.before = budget, !.idx = w]
    /\ UNCHANGED <<budget, groundBins, groundDepth, roofBins, roofDepth, crownBins, treeDepth,
                   flakes, windMag, gustBoost, groundWind, groundLoft, world>>

DoFarFlakeStep ==
    \E i \in 1..Len(farFlakes), w \in FarWinds, rx \in ResetXs : FarFlakeStep(i, w[1], w[2], rx)

DoFarResize == \E w \in Worlds : FarResize(w)

NextBands ==
    \/ DoFarFlakeStep
    \/ DoFarResize
    \/ DoFlakeStep

SpecBands == InitSteady /\ [][NextBands]_vars

----------------------------------------------------------------------------
(* Properties *)

\* a step that is a call of the operation op
IsCall(op) == calls' # calls /\ call'.op = op

\* a deposit on the roof or the crown by a direct call or by a flake that sticks
IsDeposit ==
    /\ calls' # calls
    /\ \/ call'.op \in {"addSnowToBins", "addSnowToTreeLayers"}
       \/ call'.op = "flake" /\ call'.stick /\ call'.hit # "none"

\* what the truncation of the even split of a ring of addToGround can leave unaccounted
RoundingSlack == 4 * GroundBins * MaxCalls

\* C1: with erosion disabled, budget + roof bins + crown bins + ground bins is conserved:
\* every unit debited from the budget ends in a bin or is refunded (up to the rounding
\* of the fixed-point model).
C1_MassConserved == Abs(budget + TotalMass - BudgetMax) <= RoundingSlack

\* C2: the budget stays within [0, budgetMax] after every operation.
C2_BudgetInRange == 0 <= budget /\ budget <= BudgetMax

\* a refund that had to be clamped at the ceiling
C2_RefundClamped ==
    /\ call.op = "refundBudget"
    /\ call.before + call.amount > BudgetMax
    /\ budget = BudgetMax

\* C4: consumeBudget(requested) returns min(requested, budget), debits the budget by
\* exactly that amount and changes nothing else.
C4_ConsumeExact ==
    [][IsCall("consumeBudget") =>
        /\ call'.granted = Min(call'.amount, budget)
        /\ budget' = budget - call'.granted
        /\ UNCHANGED <<groundBins, groundDepth, roofBins, roofDepth, crownBins, treeDepth,
                       flakes, windMag, gustBoost, groundWind, groundLoft, world>>]_vars

\* a request larger than the budget was granted what was left
C4_PartialGrant ==
    /\ call.op = "consumeBudget"
    /\ call.before > 0
    /\ call.amount > call.before
    /\ call.granted = call.before
    /\ budget = 0

\* C8: once the budget is 0 a deposit request is a silent no-op: it is granted nothing
\* and neither the budget nor any roof, crown or ground bin changes.
C8_EmptyBudgetNoOp ==
    [][IsDeposit /\ budget = 0 =>
        UNCHANGED <<budget, groundBins, groundDepth, roofBins, crownBins>>]_vars

\* a deposit was requested from an empty budget
C8_DepositOnEmpty ==
    /\ call.op \in {"addSnowToBins", "addSnowToTreeLayers"}
    /\ call.amount > 0
    /\ call.before = 0
    /\ call.granted = 0

\* a call of addSnowToBins on the roof that is granted something for a bin of the roof
IsRoofFill ==
    /\ IsCall("addSnowToBins")
    /\ call'.granted > 0
    /\ call'.idx >= 0 /\ call'.idx < HouseBins

\* what the target bin of the call takes, and what it leaves
TargetTakes == Min(call'.granted, Max(0, MaxDepth - At(roofBins, call'.idx)))

TargetLeaves == call'.granted - TargetTakes

\* the neighbour n gains what it can take of share
NeighbourGains(n, share) ==
    At(roofBins', n) = At(roofBins, n) + Max(0, Min(share, MaxDepth - At(roofBins, n)))

GroundGain == SumSeq(groundBins') - SumSeq(groundBins)

\* C6 as stated: the target bin is filled to its cap, then the whole remainder is split
\* evenly over the in-range lateral neighbours up to their caps.
C6_RemainderToNeighbours ==
    [][IsRoofFill =>
        /\ At(roofBins', call'.idx) = At(roofBins, call'.idx) + TargetTakes
        /\ LET ns == Neighbors(roofBins, call'.idx)
           IN  \A j \in 1..Len(ns) : NeighbourGains(ns[j], TargetLeaves \div Len(ns))]_vars

\* C6 amended: the target bin is filled to its cap; 60% of the remainder is offered to the
\* ground first and only the other 40% is split evenly over the in-range lateral neighbours
\* up to their caps; the ground gains no more than groundFactor (one half) of what the
\* bins of the roof did not take.
C6_SpreadAfterGround ==
    [][IsRoofFill =>
        /\ At(roofBins', call'.idx) = At(roofBins, call'.idx) + TargetTakes
        /\ LET ns == Neighbors(roofBins, call'.idx)
               spread == TargetLeaves - (TargetLeaves * 6) \div 10
           IN  \A j \in 1..Len(ns) : NeighbourGains(ns[j], spread \div Len(ns))
        /\ 2 * GroundGain <= call'.granted - (SumSeq(roofBins') - SumSeq(roofBins))]_vars

\* a deposit overflowed its target bin and reached both neighbours and the ground
C6_Overflowed ==
    /\ call.op = "addSnowToBins"
    /\ call.idx = 1
    /\ call.granted > MaxDepth
    /\ At(roofBins, 0) > 0 /\ At(roofBins, 0) < MaxDepth
    /\ At(roofBins, 2) > 0
    /\ SumSeq(groundBins) > 0

\* the room of the ground bin a deposit at the column of the roof apex is centred on
CentreRoom ==
    LET c == IdxCenter(GroundBins, Roof.apexX, WorldWidth(world), groundWind)
    IN  LocalCap(GroundDepthCap, c) - At(groundBins, c)

\* a call of addSnowToBins with an index outside the bins that is granted something
IsOutside ==
    /\ IsCall("addSnowToBins")
    /\ call'.granted > 0
    /\ call'.idx < 0 \/ call'.idx >= HouseBins

\* C7 as stated: for an index outside the bins the surface bins are unchanged and the
\* entire granted amount is offered to the ground.
C7_WholeGrantToGround ==
    [][IsOutside =>
        /\ roofBins' = roofBins
        /\ CentreRoom >= call'.granted => GroundGain = call'.granted]_vars

\* C7 amended: for an index outside the bins the surface bins are unchanged and the
\* granted amount times groundFactor (one half) is offered to the ground.
C7_HalfGrantToGround ==
    [][IsOutside =>
        /\ roofBins' = roofBins
        /\ GroundGain <= call'.granted \div 2
        /\ CentreRoom >= call'.granted => GroundGain = call'.granted \div 2]_vars

\* a deposit outside the bins put half of its grant on the empty ground
C7_OutsideDeposit ==
    /\ call.op = "addSnowToBins"
    /\ call.idx \in {-1, HouseBins}
    /\ call.granted > 1
    /\ roofBins = Zeros(HouseBins)
    /\ SumSeq(groundBins) = call.granted \div 2

\* C3: every roof bin is within [0, maxDepth], every crown bin within [0, the cap of its
\* layer] and every ground bin within [0, depthCap * (1.1 + 0.7 * dune)] after any
\* deposit, erosion or drift step.
C3_BinsWithinCaps ==
    /\ \A i \in 1..Len(roofBins) : 0 <= roofBins[i] /\ roofBins[i] <= MaxDepth
    /\ \A li \in 1..Len(crownBins) : \A i \in 1..Len(crownBins[li]) :
          0 <= crownBins[li][i] /\ crownBins[li][i] <= LayerDepthLimit(li - 1, CrownLayers)
    /\ \A t \in 1..Len(groundBins) :
          0 <= groundBins[t] /\ groundBins[t] <= LocalCap(GroundDepthCap, t - 1)

\* C5: in an erosion tick the credit to the budget equals the mass removed from the
\* roof, crown and ground bins in that tick, up to the clamp at budgetMax.
C5_ErosionCreditsRemoved ==
    [][IsCall("erode") => budget' = Min(BudgetMax, budget + (TotalMass - TotalMass'))]_vars

\* C9: the number of flakes of the band changes only in a resize: collisions, recycling at
\* the bottom edge and launches overwrite a flake of the pool in place.
C9_FlakeCountConstant ==
    [][calls' # calls /\ call'.op # "resize" => Len(flakes') = Len(flakes)]_vars

\* an erosion pass has launched a flake of the pool
C9_Launched ==
    /\ call.op = "erode"
    /\ call.amount > 0
    /\ Len(flakes) = FlakeCount(world)
    /\ \E i \in 1..Len(flakes) : flakes[i].vy < 0

\* the position (x, y) passes the collision test of a roof or of a crown layer
Collides(x, y) == InRoof(x, y) \/ \E li \in 0..(CrownLayers - 1) : InCrown(x, y, li)

----------------------------------------------------------------------------
(* Launched flakes, stickiness *)

\* C11: a flake that launchFlake has sent off (its vy is negative) moves up the screen
\* in its next step of the flake loop when the wind at the flake is zero and it meets
\* no roof and no crown: its y after the integration is smaller than before.
C11_LaunchedFlakeRises ==
    [][IsCall("flake") /\ flakes[call'.flake].vy < 0 /\ call'.hit = "none" =>
        call'.y < flakes[call'.flake].y]_vars

\* C12: the stick probability of shouldStick does not rise with the wind: for every
\* wind speed up to the one of the call, the probability at the lower speed is at least
\* the probability the call used. This covers the threshold at 140 and the speeds at
\* which the unclamped value is negative.
C12_StickMonotone ==
    call.op = "shouldStick" =>
        \A m \in 0..windMag : StickProb(m) >= call.amount

\* a call above the threshold whose unclamped probability is negative: the floor 0.08
\* is used, and a draw just under 0.08 sticks
C12_FloorUnderGale ==
    /\ call.op = "shouldStick"
    /\ windMag > 140
    /\ StickBase(windMag) < 0
    /\ call.amount = (8 * StickUnit) \div 100
    /\ call.amount < StickProb(140)
    /\ call.stick

\* C18: after a resize that changes the world size every roof bin, every bin of every
\* crown layer and every ground bin is 0, and so are the depth scalars: nothing of the
\* old snow is carried over.
C18_ResizeDropsSnow ==
    call.op = "resize" =>
        /\ roofBins = Zeros(HouseBins)
        /\ crownBins = [li \in 1..CrownLayers |-> Zeros(TreeBins)]
        /\ groundBins = Zeros(GroundBins)
        /\ groundDepth = 0
        /\ roofDepth = 0
        /\ treeDepth = 0

\* a resize of a scene on which snow had settled: the budget is still debited for it
C18_ResizedUnderSnow ==
    /\ call.op = "resize"
    /\ world = 2
    /\ call.before < BudgetMax
    /\ budget = call.before
    /\ TotalMass = 0
    /\ Len(flakes) = FlakeCount(2)

\* C19: of two crown layers of the tree, the one that is higher on the tree (its base
\* line has the smaller y) has a depth cap no greater than the other, for the caps
\* the collision deposit and the spill to the layers below apply.
C19_UpperLayersCapLower ==
    call.op = "addSnowToTreeLayers" =>
        \A hi, lo \in 0..(CrownLayers - 1) :
            CrownGeom(hi).baseY < CrownGeom(lo).baseY =>
                LayerDepthLimit(hi, CrownLayers) <= LayerDepthLimit(lo, CrownLayers)

\* C20: at the end of every tick of the mid band each surface's depth scalar is the
\* mean of its bins (roof, crown layers, ground), also in a tick in which the wind
\* erosion runs.
C20_DepthIsMeanOfBins ==
    call.op = "tick" =>
        /\ roofDepth = average(roofBins)
        /\ treeDepth = average(Flat(crownBins))
        /\ groundDepth = average(groundBins)

\* C21: a roof bin that holds 5 units and is eroded at a rate of 1 per bin and tick,
\* with no inflow, is exactly 0 after 5 ticks, whatever the random factor of each tick.
C21_EmptyAfterFiveTicks ==
    call.op = "erodeRoof" /\ calls = ErodeCase.ticks => \A i \in 1..HouseBins : roofBins[i] = 0

\* C22: the flakes launched in one tick are bounded: the launches of the erosion block
\* (roofs, crowns and ground together) never exceed loftCap = 24 + floor(12 * gustBoost),
\* which is at most 36, and the loft loop of the ground drift launches at most 28
\* flakes in at most 70 attempts.
C22_LaunchesBounded ==
    /\ call.op = "erodeVillage" => call.amount <= LoftCap(gustBoost) /\ LoftCap(gustBoost) <= 36
    /\ call.op = "drift" => call.amount <= 28 /\ call.granted <= 70

\* a village asks for more launches than the cap of the tick and gets the cap
C22_CapReached ==
    /\ call.op = "erodeVillage"
    /\ call.idx = Houses
    /\ call.amount = LoftCap(gustBoost)

\* C23: the mid band makes a gust burst only in a tick in which the wind speed rose by
\* more than 70 since the tick before and the cooldown has reached 0; a burst sets the
\* cooldown to 0.6 s, so a burst follows the burst before it by 0.6 s of update time
\* or more.
C23_BurstsGated ==
    [][IsCall("wind") /\ call'.hit = "burst" =>
        /\ windMag' - windMag > 70
        /\ Max(0, gustCooldown - call'.granted) = 0
        /\ gustCooldown' = 600
        /\ sinceBurst >= 0 => sinceBurst + call'.granted >= 600]_vars

\* a second burst, 0.6 s or more after the first
C23_SecondBurst ==
    /\ call.op = "wind"
    /\ call.hit = "burst"
    /\ call.idx >= 0
    /\ gustCooldown = 600

\* C24: puffs have no mass: spawnSnowPuff, spawnGroundPuffs, the drain of the puff queue
\* and updatePuffs leave the budget, the roof bins, the crown bins, the ground bins and
\* groundDepth as they were.
C24_PuffsCarryNoMass ==
    [][IsCall("wind") \/ IsCall("puffs") \/ IsCall("queuePuff") =>
        UNCHANGED <<budget, roofBins, crownBins, groundBins, groundDepth>>]_vars

\* puffs of a burst and of a drained event have died over snow that is still there
C24_PuffsGone ==
    /\ call.op = "puffs"
    /\ puffs = <<>>
    /\ sinceBurst >= 0
    /\ TotalMass > 0

\* C25: a roof deposit never leaves the budget higher than it was before the call,
\* whatever the budget, also when the budget is smaller than the amount asked for and
\* the grant is partial: what addSnowToBins refunds is at most what was granted and
\* not used.
C25_DepositNeverCredits ==
    [][IsCall("addSnowToBins") => budget' <= budget]_vars

\* C26: the value addToGround returns, which its callers add to `used`, is the mass the
\* call has added to the ground bins, whatever the ground bins hold, also when the
\* centre bin is at its local cap and the mass spreads to the outer rings.
C26_ReturnIsAdded ==
    [][IsCall("addToGround") => call'.granted = SumSeq(groundBins') - SumSeq(groundBins)]_vars

\* C27: directly after a resize that changes the world size, and directly after a
\* regenerate, what the budget has been debited, budgetMax - budget, is the mass held
\* in the roof, crown and ground bins.
C27_LedgerAfterLifecycle ==
    call.op \in {"resize", "regenerate"} => BudgetMax - budget = TotalMass

\* C28: updateGroundDrift only moves mass between ground bins: under a wind of either
\* direction and any strength the sum of the ground bins is the same after the call as
\* before, and the budget is unchanged, also in a tick in which it lofts flakes from
\* the ground.
C28_DriftKeepsMass ==
    [][IsCall("drift") => SumSeq(groundBins') = SumSeq(groundBins) /\ budget' = budget]_vars

\* a drift against the x axis has moved snow into the first bin and lofted flakes
C28_DriftedAndLofted ==
    /\ call.op = "drift"
    /\ groundWind < 0
    /\ call.amount > 0
    /\ groundLoft < 10

\* C29: ground bins never go negative under the ground drift: if every ground bin is
\* >= 0 before updateGroundDrift, every ground bin is >= 0 after the downwind pass and
\* the slope relaxation pass, for both wind directions and every strength in [0, 1].
C29_DriftKeepsBinsPositive ==
    [][IsCall("drift") /\ (\A i \in 1..Len(groundBins) : groundBins[i] >= 0) =>
        \A i \in 1..Len(groundBins') : groundBins'[i] >= 0]_vars

\* a drift has levelled a slope down to an empty bin, which has stayed empty or filled
C29_SlopeRelaxed ==
    /\ call.op = "drift"
    /\ groundWind > 0
    /\ \E i \in 1..(Len(groundBins) - 1) :
          groundBins[i] > 0 /\ groundBins[i + 1] > 0 /\ groundBins[i] > groundBins[i + 1]

\* C30: only the mid band changes the shared ledger: an update or a resize of a
\* background or foreground snow band leaves the budget, the ground bins, groundDepth,
\* every roof bin and every crown bin unchanged.
C30_FarBandsLeaveLedger ==
    [][IsCall("farUpdate") \/ IsCall("farResize") =>
        UNCHANGED <<budget, groundBins, groundDepth, roofBins, crownBins>>]_vars

\* a flake of the background band has fallen through the roof the mid band's flakes land on
C30_FellThroughRoof ==
    /\ call.op = "farUpdate"
    /\ InRoof(call.x, call.y)
    /\ farFlakes[call.flake].y = call.y
    /\ TotalMass > 0

----------------------------------------------------------------------------
(* The wind trail *)

\* C13: a segment whose life has passed since its push (the dt of the updates since then
\* sum to at least its life) is no longer in the segment list, whatever the decay option.
C13_GoneAfterLife ==
    \A i \in 1..Len(trail.segments) :
        trail.time - trail.segments[i].born < trail.segments[i].life

\* C14: after every onPointerMove the list holds at most trailMaxSegments segments, and
\* they are the newest ones: their ordinals are consecutive and end at the ordinal of
\* the segment pushed last, so whatever was dropped was at the head of the list.
C14_NewestKept ==
    [][IsCall("onPointerMove") =>
        /\ Len(trail'.segments) <= trail'.opts.trailMaxSegments
        /\ \A i \in 1..Len(trail'.segments) :
              trail'.segments[i].id = trail'.made - Len(trail'.segments) + i]_vars

\* a move pushed more segments than the cap allows: the list is full and its head is
\* not the first segment ever pushed
C14_OldestDropped ==
    /\ call.op = "onPointerMove"
    /\ trail.made > trail.opts.trailMaxSegments
    /\ Len(trail.segments) = trail.opts.trailMaxSegments
    /\ trail.segments[1].id = trail.made - trail.opts.trailMaxSegments + 1
    /\ trail.segments[Len(trail.segments)].age = 0

\* the four conditions under which a step that is an onPointerMove pushes segments
Ingests ==
    /\ trail.lastPos # <<>>
    /\ trail'.lastMoveTime - trail.lastMoveTime <= 120
    /\ trail'.lastSpeed >= trail.opts.minSpeed
    /\ (trail'.lastPos[1] - trail.lastPos[1]) * (trail'.lastPos[1] - trail.lastPos[1])
       + (trail'.lastPos[2] - trail.lastPos[2]) * (trail'.lastPos[2] - trail.lastPos[2])
         >= trail.opts.trailSpacing * trail.opts.trailSpacing

\* C16: an onPointerMove without a previous position, more than 120 ms after the
\* previous event, with a clamped speed below minSpeed or less than trailSpacing away
\* from the previous position leaves the segment list as it was; segments are pushed
\* only when none of these is the case.
C16_PushOnlyWhenMoving ==
    [][IsCall("onPointerMove") =>
        /\ ~Ingests => trail'.segments = trail.segments /\ trail'.made = trail.made
        /\ trail'.made > trail.made => Ingests]_vars

\* a slow move right after a fast one: in time and far enough, but below minSpeed; the
\* list still holds the segments of the fast move
C16_SlowMoveIgnored ==
    /\ call.op = "onPointerMove"
    /\ call.amount <= 120
    /\ trail.lastSpeed < trail.opts.minSpeed
    /\ trail.lastDir # <<>>
    /\ trail.segments # <<>>
    /\ \E i \in 1..Len(trail.segments) :
          trail.segments[i].p1 # <<trail.lastPos[1] * 10, trail.lastPos[2] * 10>>
    /\ \A i \in 1..Len(trail.segments) :
          hypot(trail.lastPos[1] * 10 - trail.segments[i].p1[1],
                trail.lastPos[2] * 10 - trail.segments[i].p1[2]) >= trail.opts.trailSpacing * 10

C15_SweepSegments ==
    trail.lastPos # <<>> /\ trail.lastMoveTime + Sweep.gap >= Sweep.length =>
        /\ trail.made >= 16
        /\ Len(trail.segments) >= 16
        /\ \A i \in 1..Len(trail.segments) :
              /\ trail.segments[i].dir = trail.segments[1].dir
              /\ trail.segments[i].spin = 0

\* the sweep is over: seventeen events 12 px apart have left sixteen segments
C15_SweepDone ==
    /\ now = Sweep.length
    /\ trail.made = 16
    /\ Len(trail.segments) = 16
    /\ Abs(trail.lastPos[1] - trail.segments[1].p0[1] \div 10) = 16 * Sweep.step

====
